---------------------------- MODULE Spec2Model ----------------------------
(***************************************************************************)
(* IEC 62056-21 mode C polling client (pe32me162irpy_pub.py) against the   *)
(* sample meter server (iec62056_sample_server.py), connected through the  *)
(* serial proxy.  Frames are sequences of byte values 0..255; both state   *)
(* machines handle them one byte at a time, as the code does.              *)
(*                                                                         *)
(* Time is counted in whole seconds.  Transmission, the 20 ms / 200 ms     *)
(* reaction pauses and the post-send drain pauses all take far less than   *)
(* a second, so a second only passes while nothing is in flight.           *)
(***************************************************************************)
EXTENDS Integers, Sequences, FiniteSets, TLC

(***************************************************************************)
(* ctrlcode.py: the control characters.                                    *)
(***************************************************************************)
SOH == 1
STX == 2
ETX == 3
EOT == 4
ACK == 6
LF == 10
CR == 13
NAK == 21

(***************************************************************************)
(* str.encode('ascii') for the printable characters 32..126.               *)
(***************************************************************************)
Printable ==
    << " ", "!", "dquote", "#", "$", "%", "&", "'", "(", ")", "*", "+", ",", "-",
       ".", "/", "0", "1", "2", "3", "4", "5", "6", "7", "8", "9", ":", ";",
       "<", "=", ">", "?", "@", "A", "B", "C", "D", "E", "F", "G", "H", "I",
       "J", "K", "L", "M", "N", "O", "P", "Q", "R", "S", "T", "U", "V", "W",
       "X", "Y", "Z", "[", "backslash", "]", "^", "_", "backtick", "a", "b", "c", "d", "e",
       "f", "g", "h", "i", "j", "k", "l", "m", "n", "o", "p", "q", "r", "s",
       "t", "u", "v", "w", "x", "y", "z", "{", "|", "}", "~" >>

Ord(ch) == 31 + (CHOOSE i \in DOMAIN Printable : Printable[i] = ch)

Encode(chars) == [i \in DOMAIN chars |-> Ord(chars[i])]

IsDigit(b) == b \in 48..57

Last(s) == s[Len(s)]

EndsWith(s, suffix) ==
    /\ Len(s) >= Len(suffix)
    /\ SubSeq(s, Len(s) - Len(suffix) + 1, Len(s)) = suffix

StartsWith(s, prefix) ==
    /\ Len(s) >= Len(prefix)
    /\ SubSeq(s, 1, Len(prefix)) = prefix

(***************************************************************************)
(* The ^ operator on bytes.                                                *)
(***************************************************************************)
RECURSIVE XorBits(_, _)
XorBits(a, b) ==
    IF a = 0 THEN b
    ELSE IF b = 0 THEN a
    ELSE ((a + b) % 2) + 2 * XorBits(a \div 2, b \div 2)

\* a ^ b on bytes, looked up in the table of all pairs.
XorTable == [a \in 0..255 |-> [b \in 0..255 |-> XorBits(a, b)]]

Xor(a, b) == XorTable[a][b]

\* The xor of s[lo..hi] (0 for an empty range), split in halves to keep the
\* evaluation shallow.
RECURSIVE XorRange(_, _, _)
XorRange(s, lo, hi) ==
    IF lo > hi THEN 0
    ELSE IF lo = hi THEN s[lo]
    ELSE LET mid == (lo + hi) \div 2
         IN  Xor(XorRange(s, lo, mid), XorRange(s, mid + 1, hi))

(***************************************************************************)
(* din66219.py.  Both functions first run an iterator up to and including  *)
(* the first SOH/STX; OpenerEnd is the number of bytes that loop consumes  *)
(* (all of them when there is no opener).                                  *)
(***************************************************************************)
Openers == {SOH, STX}
Closers == {ETX, EOT}

OpenerEnd(bstr) ==
    IF \E i \in DOMAIN bstr : bstr[i] \in Openers
    THEN CHOOSE i \in DOMAIN bstr :
            /\ bstr[i] \in Openers
            /\ \A j \in 1..(i - 1) : bstr[j] \notin Openers
    ELSE Len(bstr)

append_bcc_FromOpener(bstr) ==
    LET k == OpenerEnd(bstr)
        bcc == XorRange(bstr, k, Len(bstr))
    IN  IF Len(bstr) = 0 \/ Last(bstr) \notin Closers
        THEN [ok |-> FALSE, error |-> "expected one ETX/EOT at end", frame |-> << >>]
        ELSE [ok |-> TRUE, error |-> "", frame |-> Append(bstr, bcc)]

\* append_bcc: the second loop xors every remaining byte (it does not stop at
\* a closer); the input is refused unless the last byte iterated is ETX/EOT.
\* A refusal (ValueError) is the result [ok |-> FALSE].
append_bcc(bstr) ==
    LET k == OpenerEnd(bstr)
        bcc == XorRange(bstr, k + 1, Len(bstr))
    IN  IF Len(bstr) = 0 \/ Last(bstr) \notin Closers
        THEN [ok |-> FALSE, error |-> "expected one ETX/EOT at end", frame |-> << >>]
        ELSE [ok |-> TRUE, error |-> "", frame |-> Append(bstr, bcc)]

\* check_bcc: the second loop xors up to and including the first closer after
\* the opener; the closer must be the last byte but one, and the last byte
\* must equal the xor.  The result is "ok" or the ValueError raised.
check_bcc(bstr) ==
    LET k == OpenerEnd(bstr)
        after == {j \in (k + 1)..Len(bstr) : bstr[j] \in Closers}
        stop == IF after = {} THEN Len(bstr)
                ELSE CHOOSE j \in after : \A j2 \in after : j <= j2
        bcc == XorRange(bstr, k + 1, stop)
    IN  IF Len(bstr) = 0 \/ bstr[stop] \notin Closers
        THEN "expected ETX/EOT at end"
        ELSE IF stop # Len(bstr) - 1
        THEN "expected $BCC at end"
        ELSE IF bstr[Len(bstr)] # bcc
        THEN "$BCC mismatch"
        ELSE "ok"

(***************************************************************************)
(* Text helpers standing for the str/bytes methods the code uses.          *)
(***************************************************************************)
\* The least index i >= from with s[i] = b, or 0: s.find(b).
IndexFrom(s, b, from) ==
    LET hits == {i \in from..Len(s) : s[i] = b}
    IN  IF hits = {} THEN 0 ELSE CHOOSE i \in hits : \A j \in hits : i <= j

\* The least index i >= from where CR LF starts, or 0.
IndexCRLF(s, from) ==
    LET hits == {i \in from..(Len(s) - 1) : s[i] = CR /\ s[i + 1] = LF}
    IN  IF hits = {} THEN 0 ELSE CHOOSE i \in hits : \A j \in hits : i <= j

\* s.split('\r\n'): the sequence of parts, from index start on.
RECURSIVE SplitCRLF(_, _)
SplitCRLF(s, start) ==
    LET i == IndexCRLF(s, start)
    IN  IF i = 0 THEN << SubSeq(s, start, Len(s)) >>
        ELSE << SubSeq(s, start, i - 1) >> \o SplitCRLF(s, i + 2)

\* s.split(b) for a one-byte separator, from index start on.
RECURSIVE SplitByte(_, _, _)
SplitByte(s, b, start) ==
    LET i == IndexFrom(s, b, start)
    IN  IF i = 0 THEN << SubSeq(s, start, Len(s)) >>
        ELSE << SubSeq(s, start, i - 1) >> \o SplitByte(s, b, i + 1)

\* s.lstrip('0')
RECURSIVE LStripZero(_)
LStripZero(s) ==
    IF s # << >> /\ s[1] = 48 THEN LStripZero(Tail(s)) ELSE s

AllDigits(s) == \A i \in DOMAIN s : IsDigit(s[i])

\* int(s) for a sequence of digit bytes.
RECURSIVE DigitsValue(_)
DigitsValue(s) ==
    IF s = << >> THEN 0
    ELSE 10 * DigitsValue(SubSeq(s, 1, Len(s) - 1)) + (s[Len(s)] - 48)

RECURSIVE Pow10(_)
Pow10(n) == IF n = 0 THEN 1 ELSE 10 * Pow10(n - 1)

\* n in decimal, zero-padded to exactly w digits (n < 10^w), as bytes.
ZeroPadded(n, w) == [i \in 1..w |-> 48 + ((n \div Pow10(w - i)) % 10)]

(***************************************************************************)
(* decimal.Decimal on the text of a value: the plain forms "digits" and    *)
(* "digits.digits" (signs, exponents, NaN and the like are taken as        *)
(* rejected).  A Decimal is kept as its integer part and its fraction in   *)
(* millionths, so that the * 1000 and the int() of set_value are the       *)
(* code's arithmetic; digits beyond the sixth decimal are not represented. *)
(***************************************************************************)
Micro == 1000000

DecimalOk(text) ==
    LET dot == IndexFrom(text, Ord("."), 1)
    IN  IF dot = 0 THEN text # << >> /\ AllDigits(text)
        ELSE /\ AllDigits(SubSeq(text, 1, dot - 1))
             /\ AllDigits(SubSeq(text, dot + 1, Len(text)))
             /\ Len(text) > 1

Decimal(text) ==
    LET dot == IndexFrom(text, Ord("."), 1)
        whole == IF dot = 0 THEN text ELSE SubSeq(text, 1, dot - 1)
        frac == IF dot = 0 THEN << >> ELSE SubSeq(text, dot + 1, Len(text))
        n == Len(frac)
    IN  [int |-> DigitsValue(whole),
         frac |-> IF n <= 6 THEN DigitsValue(frac) * Pow10(6 - n)
                  ELSE DigitsValue(SubSeq(frac, 1, 6))]

(***************************************************************************)
(* obis.py                                                                 *)
(***************************************************************************)
Text(chars) == Encode(chars)

Code_1_8_0 == Text(<< "1", ".", "8", ".", "0" >>)
Code_2_8_0 == Text(<< "2", ".", "8", ".", "0" >>)
Code_C_1_0 == Text(<< "C", ".", "1", ".", "0" >>)
Code_F_F == Text(<< "F", ".", "F" >>)
Code_F_F_0 == Text(<< "F", ".", "F", ".", "0" >>)
Unit_Wh == Text(<< "W", "h" >>)
Unit_W == Text(<< "W" >>)
Unit_kWh == Text(<< "k", "W", "h" >>)

\* int(x) succeeds (taken as: x is a non-empty run of digits).
IntOk(x) == x # << >> /\ AllDigits(x)

\* ElectricityObis.from_code: the variant chosen, or the exception raised.
\* kind is "ActiveEnergy", "InstantaneousPower" or "Misc" with the class's unit
\* (<< >> for Misc, whose unit is NotImplemented).
from_code(code0) ==
    LET code == IF code0 = Code_F_F THEN Code_F_F_0 ELSE code0
        parts == SplitByte(code, Ord("."), 1)
        c == parts[1]
        d == parts[2]
        e0 == parts[3]
        eparts == SplitByte(e0, Ord("*"), 1)
        hasF == Len(eparts) > 1
        e == eparts[1]
        cIs(n) == AllDigits(c) /\ c # << >> /\ DigitsValue(c) = n
        dIs(n) == AllDigits(d) /\ d # << >> /\ DigitsValue(d) = n
        energyC == cIs(1) \/ cIs(2) \/ cIs(15) \/ cIs(16)
    IN  IF Len(parts) # 3 \/ Len(eparts) > 2 \/ ~IntOk(e)
           \/ (hasF /\ ~IntOk(eparts[2]))
        THEN [kind |-> "NotImplementedError", unit |-> << >>]
        ELSE IF energyC /\ dIs(8)
        THEN [kind |-> "ActiveEnergy", unit |-> Unit_Wh]
        ELSE IF energyC /\ dIs(7)
        THEN IF DigitsValue(e) = 0
             THEN [kind |-> "InstantaneousPower", unit |-> Unit_W]
             ELSE [kind |-> "AssertionError", unit |-> << >>]
        ELSE IF ~hasF /\ (cIs(0) \/ code = Code_C_1_0 \/ code = Code_F_F_0)
        THEN [kind |-> "Misc", unit |-> << >>]
        ELSE [kind |-> "NotImplementedError", unit |-> << >>]

\* ElectricityObis.set_value on a Decimal: the stored value, or ok = FALSE for
\* the NotImplementedError('unhandled unit').  hasUnit = FALSE stands for
\* unit None.  The kilo case is value *= 1000; value = int(value).
\* set_value that takes a kilo unit for the unit itself.
set_value_NoKilo(obisUnit, value, hasUnit, unit) ==
    IF ~hasUnit \/ (obisUnit # << >> /\ unit = obisUnit)
    THEN [ok |-> TRUE, value |-> value]
    ELSE IF obisUnit # << >> /\ unit = << Ord("k") >> \o obisUnit
    THEN [ok |-> TRUE, value |-> value]
    ELSE [ok |-> FALSE, value |-> value]

\* set_value that takes any unit starting with k for the kilo unit.
set_value_AnyKilo(obisUnit, value, hasUnit, unit) ==
    IF ~hasUnit \/ (obisUnit # << >> /\ unit = obisUnit)
    THEN [ok |-> TRUE, value |-> value]
    ELSE IF obisUnit # << >> /\ unit # << >> /\ unit[1] = Ord("k")
    THEN [ok |-> TRUE,
          value |-> [int |-> value.int * 1000 + (value.frac * 1000) \div Micro,
                     frac |-> 0]]
    ELSE [ok |-> FALSE, value |-> value]

set_value(obisUnit, value, hasUnit, unit) ==
    IF ~hasUnit \/ (obisUnit # << >> /\ unit = obisUnit)
    THEN [ok |-> TRUE, value |-> value]
    ELSE IF obisUnit # << >> /\ unit = << Ord("k") >> \o obisUnit
    THEN [ok |-> TRUE,
          value |-> [int |-> value.int * 1000 + (value.frac * 1000) \div Micro,
                     frac |-> 0]]
    ELSE [ok |-> FALSE, value |-> value]

(***************************************************************************)
(* iec62056_sample_server.py: Dataset and the data providers.  A dataset   *)
(* is [value, hasUnit, unit] with value and unit as text.                  *)
(***************************************************************************)
Dataset(value, unit) == [value |-> value, hasUnit |-> TRUE, unit |-> unit]
DatasetNoUnit(value) == [value |-> value, hasUnit |-> FALSE, unit |-> << >>]

\* Dataset.as_dataline: a unit that is None or empty is left out.
as_dataline(address, ds, with_address) ==
    LET value == IF ds.hasUnit /\ ds.unit # << >>
                 THEN ds.value \o << Ord("*") >> \o ds.unit
                 ELSE ds.value
        body == << Ord("(") >> \o value \o << Ord(")") >>
    IN  IF with_address THEN address \o body ELSE body

Code_0_0_0 == Text(<< "0", ".", "0", ".", "0" >>)
Code_1_8_1 == Text(<< "1", ".", "8", ".", "1" >>)
Code_1_8_2 == Text(<< "1", ".", "8", ".", "2" >>)
Code_2_8_1 == Text(<< "2", ".", "8", ".", "1" >>)
Code_2_8_2 == Text(<< "2", ".", "8", ".", "2" >>)

\* ExampleMe162DataProvider.__init__: the counters the example meter starts at.
Initial182 == 34204753
Initial282 == 1516488

\* The example meter stops counting after this many increments (the counters
\* of the code grow without bound).
MaxIncrements == 2

\* ExampleMe162DataProvider._bogus_increment on the pair of counters.
bogus_increment(cnt) ==
    IF cnt.e182 < Initial182 + 10 * MaxIncrements
    THEN [e182 |-> cnt.e182 + 10, e282 |-> cnt.e282 + 5]
    ELSE cnt

\* ExampleMe162DataProvider._make_kwh_dataset: '{:011.3f}'.format(wh / 1000.0)
\* with unit kWh.
make_kwh_dataset(watthour) ==
    Dataset(ZeroPadded(watthour \div 1000, 7) \o << Ord(".") >>
            \o ZeroPadded(watthour % 1000, 3), Unit_kWh)

\* The counters after get_dataset(address): reading 1.8.0 increments both.
counters_after_get(address, cnt) ==
    IF address = Code_1_8_0 THEN bogus_increment(cnt) ELSE cnt

\* ExampleMe162DataProvider.get_dataset / BaseDataProvider.get_dataset: the
\* dataset returned, given the counters as they are after the increment.
get_dataset(address, cnt) ==
    IF address = Code_1_8_0 THEN make_kwh_dataset(cnt.e182)
    ELSE IF address = Code_1_8_1 THEN make_kwh_dataset(0)
    ELSE IF address = Code_1_8_2 THEN make_kwh_dataset(cnt.e182)
    ELSE IF address = Code_2_8_0 THEN make_kwh_dataset(cnt.e282)
    ELSE IF address = Code_2_8_1 THEN make_kwh_dataset(0)
    ELSE IF address = Code_2_8_2 THEN make_kwh_dataset(cnt.e282)
    ELSE IF address = Code_C_1_0
    THEN DatasetNoUnit(Text(<< "1", "2", "3", "4", "5", "6", "7", "8" >>))
    ELSE IF address = Code_0_0_0
    THEN DatasetNoUnit(Text(<< "4", "4", "4", "5", "5", "5", "6", "6" >>))
    ELSE IF address = Code_F_F
    THEN DatasetNoUnit(Text(<< "0", "0", "0", "0", "0", "0", "0" >>))
    ELSE DatasetNoUnit(Text(<< "E", "R", "R", "O", "R" >>))

\* ExampleMe162DataProvider.get_data_readout_addresses
get_data_readout_addresses ==
    << Code_C_1_0, Code_0_0_0, Code_1_8_0, Code_1_8_1, Code_1_8_2,
       Code_2_8_0, Code_2_8_1, Code_2_8_2, Code_F_F >>

(***************************************************************************)
(* The messages the server builds.                                         *)
(***************************************************************************)
\* build_identification_message: '/ISK5ME162-0033\r\n'
build_identification_message ==
    Text(<< "/", "I", "S", "K", "5", "M", "E", "1", "6", "2", "-", "0", "0",
            "3", "3" >>) \o << CR, LF >>

\* append_bcc(f'{SOH}B0{ETX}')
build_break == append_bcc(<< SOH >> \o Text(<< "B", "0" >>) \o << ETX >>).frame

\* append_bcc(f'{SOH}P0{STX}(){ETX}')
ProgAckFrame ==
    append_bcc(<< SOH >> \o Text(<< "P", "0" >>) \o << STX >>
               \o Text(<< "(", ")" >>) \o << ETX >>).frame

\* The counters after the i-th address of the readout has been fetched.
RECURSIVE counters_after_readout(_, _)
counters_after_readout(i, cnt) ==
    IF i = 0 THEN cnt
    ELSE counters_after_get(get_data_readout_addresses[i],
                            counters_after_readout(i - 1, cnt))

RECURSIVE datablock(_, _)
datablock(i, cnt) ==
    IF i = 0 THEN << >>
    ELSE datablock(i - 1, cnt)
         \o as_dataline(get_data_readout_addresses[i],
                        get_dataset(get_data_readout_addresses[i],
                                    counters_after_readout(i, cnt)),
                        TRUE)
         \o << CR, LF >>

\* build_data_readout: STX datablock "!" CR LF ETX bcc
build_data_readout(cnt) ==
    append_bcc(<< STX >> \o datablock(Len(get_data_readout_addresses), cnt)
               \o << Ord("!"), CR, LF, ETX >>).frame

\* build_prog_r1: STX (value*unit) ETX bcc, from the counters after the fetch.
build_prog_r1(address, cnt) ==
    append_bcc(<< STX >>
               \o as_dataline(address,
                              get_dataset(address, counters_after_get(address, cnt)),
                              FALSE)
               \o << ETX >>).frame

(***************************************************************************)
(* The server's states: ReadState(action), WriteState(data, next_state)    *)
(* and ResetState(next_state).  A state is [kind, name, data]; name is     *)
(* the read state (for a write or reset state: the read state it leads to).*)
(***************************************************************************)
ReadStateNames ==
    { "RECV_REQUEST_MESSAGE", "RECV_ACK_OPT_SELECT",
      "RECV_CMD_IN_DATA_READOUT", "RECV_CMD_IN_PROGRAMMING" }

ReadState(name) ==
    [kind |-> "read", name |-> name, data |-> << >>, isbytes |-> TRUE]
\* WriteState.__init__ encodes a str and keeps anything else as it is.
WriteState(data, next_state) ==
    [kind |-> "write", name |-> next_state, data |-> data, isbytes |-> TRUE]
\* WriteState(NAK, ...): the data is the Char object itself, not bytes.
WriteStateChar(char, next_state) ==
    [kind |-> "write", name |-> next_state, data |-> << char >>, isbytes |-> FALSE]
STATE_0 ==
    [kind |-> "reset", name |-> "RECV_REQUEST_MESSAGE", data |-> << >>,
     isbytes |-> TRUE]
None == [kind |-> "None", name |-> "", data |-> << >>, isbytes |-> TRUE]

\* What a read action hands back: the buffer as it leaves it, the state it
\* returns (or None), the exception it raises ("" when none) and the data
\* provider's counters.
Returned(buf, new_state, cnt) ==
    [buf |-> buf, new_state |-> new_state, raised |-> "", cnt |-> cnt]
Raised(buf, exception, cnt) ==
    [buf |-> buf, new_state |-> None, raised |-> exception, cnt |-> cnt]

IsAddressChar(b) == b \in 48..57 \/ b \in 65..90 \/ b \in 97..122 \/ b = 32

\* The last n bytes of buf (all of it when shorter): buf[0:-n] = bytearray().
KeepLast(buf, n) ==
    IF Len(buf) > n THEN SubSeq(buf, Len(buf) - n + 1, Len(buf)) ELSE buf

\* The end of the match of b'/?(?P<device_address>[A-Za-z0-9 ]*)!\r\n$' in
\* buf, as the index of its "!", or 0 when re.search finds none.  The "?"
\* makes the "/" optional and the address may be empty, so a match exists as
\* soon as the buffer ends with "!" CR LF; "$" also matches before one
\* final LF.
RequestBang(buf) ==
    IF EndsWith(buf, << Ord("!"), CR, LF >>) THEN Len(buf) - 2
    ELSE IF EndsWith(buf, << Ord("!"), CR, LF, LF >>) THEN Len(buf) - 3
    ELSE 0

\* The device_address group: the longest run of address characters that ends
\* right before the "!" (the leftmost match is the longest one).
RECURSIVE RunStart(_, _)
RunStart(buf, i) ==
    IF i > 1 /\ IsAddressChar(buf[i - 1]) THEN RunStart(buf, i - 1) ELSE i

DeviceAddress(buf) ==
    LET bang == RequestBang(buf)
    IN  SubSeq(buf, RunStart(buf, bang), bang - 1)

\* All leading zeros but a last character are dropped.
StripAddress(address) ==
    IF address = << >> THEN address
    ELSE LStripZero(SubSeq(address, 1, Len(address) - 1)) \o << Last(address) >>

\* on_request_message: every device address is accepted.
on_request_message(device_address) == TRUE

\* read_request_message that keeps all it was given.
read_request_message_NoTrim(buf, cnt) ==
    IF RequestBang(buf) = 0
    THEN Returned(buf, None, cnt)
    ELSE IF on_request_message(StripAddress(DeviceAddress(buf)))
    THEN Returned(<< >>,
                  WriteState(build_identification_message, "RECV_ACK_OPT_SELECT"),
                  cnt)
    ELSE Returned(<< >>, None, cnt)

read_request_message(buf, cnt) ==
    IF RequestBang(buf) = 0
    THEN Returned(KeepLast(buf, 37), None, cnt)
    ELSE IF on_request_message(StripAddress(DeviceAddress(buf)))
    THEN Returned(<< >>,
                  WriteState(build_identification_message, "RECV_ACK_OPT_SELECT"),
                  cnt)
    ELSE Returned(<< >>, None, cnt)

\* The baud rate changeover table of on_ack_opt_select; 0 stands for None.
BaudTable(z) ==
    CASE z = 0 -> 300
      [] z = 1 -> 600
      [] z = 2 -> 1200
      [] z = 3 -> 2400
      [] z = 4 -> 4800
      [] z = 5 -> 9600
      [] z = 6 -> 19200
      [] OTHER -> 0

\* on_ack_opt_select on the three digits: [ok, baud, new_state]; ok = FALSE is
\* the "assert False" on an unsupported or mismatching option.
on_ack_opt_select(opt_v, opt_z, opt_y, cnt) ==
    LET v == opt_v - 48
        z == opt_z - 48
        y == opt_y - 48
        new_baud == BaudTable(z)
    IN  IF v # 0 \/ new_baud = 0 \/ opt_z # build_identification_message[5]
           \/ y \notin {0, 1}
        THEN [ok |-> FALSE, baud |-> 0, new_state |-> None, cnt |-> cnt]
        ELSE IF y = 1
        THEN [ok |-> TRUE, baud |-> new_baud,
              new_state |-> WriteState(ProgAckFrame, "RECV_CMD_IN_PROGRAMMING"),
              cnt |-> cnt]
        ELSE [ok |-> TRUE, baud |-> new_baud,
              new_state |-> WriteState(build_data_readout(cnt),
                                       "RECV_CMD_IN_DATA_READOUT"),
              cnt |-> counters_after_readout(Len(get_data_readout_addresses), cnt)]

\* re.match of ACK \d \d \d \r \n at the start of buf.
AckOptMatch(buf) ==
    /\ Len(buf) >= 6
    /\ buf[1] = ACK
    /\ IsDigit(buf[2]) /\ IsDigit(buf[3]) /\ IsDigit(buf[4])
    /\ buf[5] = CR /\ buf[6] = LF

\* read_ack_opt_select: the result carries the baud to switch to (0: none).
read_ack_opt_select(buf, cnt) ==
    IF Len(buf) < 6
    THEN [baud |-> 0] @@ Returned(buf, None, cnt)
    ELSE IF ~AckOptMatch(buf)
    THEN [baud |-> 0] @@ Returned(buf, STATE_0, cnt)
    ELSE LET r == on_ack_opt_select(buf[2], buf[3], buf[4], cnt)
         IN  IF r.ok
             THEN [baud |-> r.baud] @@ Returned(<< >>, r.new_state, r.cnt)
             ELSE [baud |-> 0] @@ Raised(<< >>, "AssertionError", cnt)

read_cmd_in_data_readout(buf, cnt) ==
    IF Len(buf) = 1 /\ buf[1] = NAK
    THEN Raised(buf, "NotImplementedError", cnt)
    ELSE IF buf = build_break
    THEN Returned(<< >>, STATE_0, cnt)
    ELSE Returned(KeepLast(buf, 5), None, cnt)

\* The match of ({SOH}[^{ETX}{EOT}]+[{ETX}{EOT}].) that re.search finds in
\* buf: [from, to], or from = 0 when there is none.  From an SOH the payload
\* runs to the first closer, needs one byte at least, and "." takes one more
\* byte that is not a line feed.
ProgMatchAt(buf, i) ==
    LET closers == {j \in (i + 1)..Len(buf) : buf[j] \in Closers}
        j == IF closers = {} THEN 0
             ELSE CHOOSE c \in closers : \A c2 \in closers : c <= c2
    IN  IF buf[i] = SOH /\ j >= i + 2 /\ j + 1 <= Len(buf) /\ buf[j + 1] # LF
        THEN j + 1 ELSE 0

ProgMatch(buf) ==
    LET starts == {i \in DOMAIN buf : ProgMatchAt(buf, i) # 0}
        i == IF starts = {} THEN 0
             ELSE CHOOSE a \in starts : \A a2 \in starts : a <= a2
    IN  IF i = 0 THEN [from |-> 0, to |-> 0]
        ELSE [from |-> i, to |-> ProgMatchAt(buf, i)]

read_cmd_in_programming(buf, cnt) ==
    IF buf[1] = NAK
    THEN Raised(buf, "NotImplementedError", cnt)
    ELSE IF buf[1] # SOH
    THEN Returned(Tail(buf), None, cnt)
    ELSE LET m == ProgMatch(buf)
             result_buf == SubSeq(buf, m.from, m.to)
             read_dataset == SubSeq(result_buf, 5, Len(result_buf) - 2)
             address == SubSeq(read_dataset, 1, Len(read_dataset) - 2)
         IN  IF m.from = 0
             THEN Returned(buf, None, cnt)
             ELSE IF check_bcc(result_buf) # "ok"
             THEN Returned(<< >>,
                           WriteStateChar(NAK, "RECV_CMD_IN_PROGRAMMING"), cnt)
             ELSE IF SubSeq(result_buf, 2, 3) = Text(<< "B", "0" >>)
                     /\ Len(result_buf) = 5
             THEN Returned(<< >>, STATE_0, cnt)
             ELSE IF SubSeq(result_buf, 2, 3) = Text(<< "R", "1" >>)
                     /\ result_buf[4] = STX
                     /\ EndsWith(read_dataset, Text(<< "(", ")" >>))
             THEN Returned(<< >>,
                           WriteState(build_prog_r1(address, cnt),
                                      "RECV_CMD_IN_PROGRAMMING"),
                           counters_after_get(address, cnt))
             ELSE Raised(<< >>, "AssertionError", cnt)

(***************************************************************************)
(* pe32me162irpy_pub.py: the parsers.  A result carries the exception      *)
(* raised ("" when none).                                                  *)
(***************************************************************************)
ZeroDecimal == [int |-> 0, frac |-> 0]

\* unpack_iec6205621_datamessage: check_bcc, then buf[1:-2].decode('ascii').
unpack_iec6205621_datamessage(buf) ==
    IF check_bcc(buf) # "ok"
    THEN [raised |-> "ValueError", text |-> << >>]
    ELSE IF \E i \in 2..(Len(buf) - 2) : buf[i] > 127
    THEN [raised |-> "UnicodeDecodeError", text |-> << >>]
    ELSE [raised |-> "", text |-> SubSeq(buf, 2, Len(buf) - 2)]

\* parse_iec6205621_value: with a "*" the value becomes a Decimal and the
\* rest is the unit; without one the value stays text and the unit is None.
parse_iec6205621_value(value) ==
    LET star == IndexFrom(value, Ord("*"), 1)
        num == SubSeq(value, 1, star - 1)
    IN  IF star = 0
        THEN [raised |-> "", isDecimal |-> FALSE, text |-> value,
              dec |-> ZeroDecimal, hasUnit |-> FALSE, unit |-> << >>]
        ELSE IF ~DecimalOk(num)
        THEN [raised |-> "InvalidOperation", isDecimal |-> FALSE, text |-> num,
              dec |-> ZeroDecimal, hasUnit |-> FALSE, unit |-> << >>]
        ELSE [raised |-> "", isDecimal |-> TRUE, text |-> num,
              dec |-> Decimal(num), hasUnit |-> TRUE,
              unit |-> SubSeq(value, star + 1, Len(value))]

\* parse_iec6205621_dataset: address "(" value ")"
parse_iec6205621_dataset(dataset) ==
    LET paren == IndexFrom(dataset, Ord("("), 1)
        rest == SubSeq(dataset, paren + 1, Len(dataset))
    IN  IF paren = 0 \/ ~EndsWith(rest, << Ord(")") >>)
        THEN [address |-> << >>, raised |-> "ValueError", isDecimal |-> FALSE,
              text |-> << >>, dec |-> ZeroDecimal, hasUnit |-> FALSE,
              unit |-> << >>]
        ELSE [address |-> SubSeq(dataset, 1, paren - 1)]
             @@ parse_iec6205621_value(SubSeq(rest, 1, Len(rest) - 1))

(***************************************************************************)
(* IskraMe162ValueProcessor.set_register on a parsed dataset v: the        *)
(* register as the processor takes it, [address, value, unit] with the     *)
(* unit of the OBIS class, whether it refreshed _last_sane_value, and the  *)
(* exception raised.  obis.value is only evaluated for 1.8.0 and 2.8.0; a  *)
(* unit-less value is still text there and goes through Decimal().  The    *)
(* gauges the two registers feed are not part of this state.               *)
(***************************************************************************)
NoRegister == [address |-> << >>, value |-> ZeroDecimal, unit |-> << >>]

set_register_stored(address, v, obis, stored, gauged) ==
    IF ~stored.ok
    THEN [raised |-> "NotImplementedError", reg |-> NoRegister, sane |-> FALSE]
    ELSE IF gauged /\ ~v.isDecimal /\ ~DecimalOk(v.text)
    THEN [raised |-> "InvalidOperation", reg |-> NoRegister, sane |-> FALSE]
    ELSE [raised |-> "",
          reg |-> [address |-> address,
                   value |-> IF v.isDecimal THEN stored.value
                             ELSE IF gauged THEN Decimal(v.text)
                             ELSE ZeroDecimal,
                   unit |-> obis.unit],
          sane |-> gauged]

set_register_obis(address, v, obis) ==
    IF obis.kind \in {"NotImplementedError", "AssertionError"}
    THEN [raised |-> obis.kind, reg |-> NoRegister, sane |-> FALSE]
    ELSE set_register_stored(address, v, obis,
                             set_value(obis.unit, v.dec, v.hasUnit, v.unit),
                             address \in {Code_1_8_0, Code_2_8_0})

set_register(address, v) == set_register_obis(address, v, from_code(address))

\* The loop over the parts of a data readout (R_DATA_READOUT); acc is the
\* last register set so far and whether _last_sane_value was refreshed.
RECURSIVE readout_registers(_, _, _)
RECURSIVE readout_part(_, _, _, _)
RECURSIVE readout_set(_, _, _, _)
readout_registers(parts, i, acc) ==
    IF i > Len(parts) THEN acc
    ELSE readout_part(parts, i, acc, parse_iec6205621_dataset(parts[i]))

\* address, value, unit = parse_iec6205621_dataset(part)
readout_part(parts, i, acc, v) ==
    IF v.raised # "" THEN [acc EXCEPT !.raised = v.raised]
    ELSE readout_set(parts, i, acc, set_register(v.address, v))

\* self._processor.set_register(address, value, unit)
readout_set(parts, i, acc, r) ==
    IF r.raised # "" THEN [acc EXCEPT !.raised = r.raised]
    ELSE readout_registers(parts, i + 1,
            [raised |-> "", reg |-> r.reg, sane |-> acc.sane \/ r.sane])

(***************************************************************************)
(* The state of the running system.                                        *)
(***************************************************************************)
VARIABLES
    io, mode, obis_idx,   \* State: io, mode, _obis_idx
    buf,                  \* the bytearray loop() is filling
    cpc,                  \* where the client task is: "loop" (about to act on
                          \* io), "recv" (inside wait_for), "sent" (in the pause
                          \* after writer.write), "sleep", "failed", "done"
    cbaud,                \* the client's serial baudrate
    waitT,                \* seconds spent in the current wait_for / sleep
    clientExc,            \* the exception that ended the client task, or ""
    sinceSane,            \* seconds since _last_sane_value
    lastReg,              \* the register of the last set_register call
    roundLog,             \* the processor calls of the current poll round
    sentLog, lastSent,    \* the first frames written, and the last one, each
                          \* with the baudrate it was written at
    recvFailed,           \* a receive ended in log.error (timeout or NAK)
    progAcked,            \* the programming acknowledgement has been received
                          \* since the last break or sign-on was written
    cstep,                \* the last step the client task took
    dms,                  \* dead_mans_switch: "sleep", "check" or "tripped"
    session, exitCause,   \* main(): "running" / "ended", and what it raised
    writerOpen,           \* the client's transport is open
    sstate, readbuf,      \* the server's _state and serve()'s readbuf
    sbaud, cnt,           \* the server's _baudrate, the provider's counters
    serverExc,            \* the exception that ended serve(), or ""
    c2s, s2c,             \* bytes on their way to the server / to the client
    faults,               \* line faults so far
    idle,                 \* seconds since the server last read a byte
    fed,                  \* messages a peer other than the client has sent
    wg,                   \* a WattGauge: _t, _p, _tlast, _watt, _data_valid
    gop,                  \* the last call made on the WattGauge, how many
                          \* samples it has had, whether the call moved _t
    eg,                   \* an EnergyGauge: _positive, _negative, _wprev
    pub,                  \* the clock (ms) of the gauge's user, the calls it
                          \* has made, its longest sleep, its _last_publish,
                          \* when it published
    fcall,                \* a function called on its own: arguments, result
    pphase,               \* SerialProxy._detect_connect_and_hup: where it is
    readers,              \* the ptys whose fd has a reader installed
    installs,             \* how many times the readers were installed
    wfd,                  \* per pty: what its worker_fd number refers to
    attached,             \* per pty: a peer has its worker side open
    opens,                \* per pty: how many times a peer has opened it
    pbaud,                \* per pty: the baudrate its peer has set
    pin,                  \* per pty: bytes its peer wrote, not yet read
    writebuf,             \* per pty: SerialPty._writebuf
    scheduled,            \* per pty: _background_write calls scheduled
    pout,                 \* per pty: bytes written to its fd
    readLog,              \* per pty: the bytes read_byte returned, in order
    mismatches,           \* baudrate mismatches printed
    wtimer,               \* per pty: the clock (microseconds), _writelast,
                          \* _baudrate, when its scheduled write is due and
                          \* the last write made
    exposed,              \* ExposedSerialProxy: _exposed_as, what the path
                          \* holds, the fds, and what was done so far
    pexc                  \* the exception a proxy callback raised, or ""

clientVars == << io, mode, obis_idx, buf, cpc, cbaud, waitT, clientExc >>
procVars == << sinceSane, lastReg, roundLog >>
obsVars == << sentLog, lastSent, recvFailed, progAcked, cstep >>
mainVars == << dms, session, exitCause, writerOpen >>
serverVars == << sstate, readbuf, sbaud, cnt, serverExc, idle >>
lineVars == << c2s, s2c, faults >>
gaugeVars == << wg, gop >>
proxyVars == << pphase, readers, installs, wfd, attached, opens, pbaud, pin,
                writebuf, scheduled, pout, readLog, mismatches, pexc >>
\* What the client, the server and main() never touch.
loneVars == << eg, pub, fcall >>
\* What only the timed proxy touches.
timeVars == << wtimer, exposed >>
asideVars == << fed, gaugeVars, proxyVars, loneVars, timeVars >>
vars == << clientVars, procVars, obsVars, mainVars, serverVars, lineVars,
           asideVars >>

\* How many line faults a behaviour may hold, how many written frames are
\* kept in sentLog, and how many processor calls in roundLog.
MaxFaults == 1
MaxSentLog == 7
MaxRoundLog == 4

\* State._obis_requests
obis_requests == << Code_1_8_0, Code_2_8_0 >>
obis_request(idx) == obis_requests[idx + 1]
\* obis_has_next that never sees a next address.
obis_has_next_Never(idx) == FALSE

obis_has_next(idx) == idx + 1 < Len(obis_requests)

RStates == { "R_IDENT", "R_DATA_READOUT", "R_ACK_PROG_MODE", "R_READ_OBIS" }
WStates == { "W_BREAK", "W_LOGIN", "W_REQ_DATA_MODE", "W_REQ_PROG_MODE",
             "W_REQ_OBIS" }

\* The timeouts of the two wait_for calls, the sleep of the SLEEP state, the
\* pause and the limit of dead_mans_switch (seconds, milliseconds).
IdentTimeout == 5
DataTimeout == 10
PollSleep == 2
DmsLimitMs == 50000
DmsPause == 1
\* The 10 s window for every receive.
RecvTimeout_Flat(io_) == DataTimeout

RecvTimeout(io_) == IF io_ = "R_IDENT" THEN IdentTimeout ELSE DataTimeout

\* The baudrate open() asks for, and the ones loop() sets.
OpenBaud == 9600
LoginBaud == 300
DataBaud == 9600
\* The baudrate the server starts at and returns to.
ServerBaud == 300

\* IskraMe162ValueProcessor.should_stop
should_stop == FALSE

\* The message loop() sends in each W_ state.
ClientFrame(io_, idx) ==
    CASE io_ = "W_BREAK" ->
           << SOH >> \o Text(<< "B", "0" >>) \o << ETX >> \o Text(<< "q" >>)
      [] io_ = "W_LOGIN" -> Text(<< "/", "?", "!" >>) \o << CR, LF >>
      [] io_ = "W_REQ_DATA_MODE" ->
           << ACK >> \o Text(<< "0", "5", "0" >>) \o << CR, LF >>
      [] io_ = "W_REQ_PROG_MODE" ->
           << ACK >> \o Text(<< "0", "5", "1" >>) \o << CR, LF >>
      [] io_ = "W_REQ_OBIS" ->
           append_bcc(<< SOH >> \o Text(<< "R", "1" >>) \o << STX >>
                      \o obis_request(idx) \o Text(<< "(", ")" >>)
                      \o << ETX >>).frame

\* loop() without the baudrate change after the 051 option select.
BaudAfterSend_ProgModeKeeps(io_) ==
    CASE io_ = "W_BREAK" -> LoginBaud
      [] io_ = "W_REQ_DATA_MODE" -> DataBaud
      [] OTHER -> 0

\* loop() without the baudrate change after the 050 option select.
BaudAfterSend_DataModeKeeps(io_) ==
    CASE io_ = "W_BREAK" -> LoginBaud
      [] io_ = "W_REQ_PROG_MODE" -> DataBaud
      [] OTHER -> 0

\* The baudrate loop() sets after the send of each W_ state (0: left alone).
BaudAfterSend(io_) ==
    CASE io_ = "W_BREAK" -> LoginBaud
      [] io_ \in {"W_REQ_DATA_MODE", "W_REQ_PROG_MODE"} -> DataBaud
      [] OTHER -> 0

\* The state loop() moves to after the send of each W_ state.
IoAfterSend(io_) ==
    CASE io_ = "W_BREAK" -> "W_LOGIN"
      [] io_ = "W_LOGIN" -> "R_IDENT"
      [] io_ = "W_REQ_DATA_MODE" -> "R_DATA_READOUT"
      [] io_ = "W_REQ_PROG_MODE" -> "R_ACK_PROG_MODE"
      [] io_ = "W_REQ_OBIS" -> "R_READ_OBIS"

\* recv_text / recv_datamessage: the buffer ends the read loop.
RecvComplete(io_, b) ==
    IF io_ = "R_IDENT" THEN EndsWith(b, << CR, LF >>)
    ELSE Len(b) >= 2 /\ b[Len(b) - 1] \in Closers

\* What the tail of recv_datamessage raises on a complete buffer.
recv_datamessage_check(b) ==
    IF check_bcc(b) # "ok" THEN "AssertionError"
    ELSE IF b[Len(b) - 1] = EOT THEN "AssertionError"
    ELSE ""

(***************************************************************************)
(* loop(): what the R_ states do with a received buffer b.  The result is  *)
(* the exception raised ("" when none), the io, mode and _obis_idx left    *)
(* behind, the last register handed to the processor (called = TRUE when   *)
(* set_register completed at least once), whether _last_sane_value was     *)
(* refreshed, and the set_register call to note in the round's log.        *)
(***************************************************************************)
Acted(io_, mode_, idx) ==
    [raised |-> "", io |-> io_, mode |-> mode_, idx |-> idx,
     reg |-> NoRegister, called |-> FALSE, sane |-> FALSE, calls |-> << >>]

ActRaised(exception, io_, mode_, idx) ==
    [Acted(io_, mode_, idx) EXCEPT !.raised = exception]

RegisterCall(address) == [op |-> "set_register", address |-> address]
PublishCall == [op |-> "try_publish", address |-> << >>]

\* R_IDENT that asks for the data readout whatever the mode.
act_R_IDENT_AlwaysDataMode(b, mode_, idx) ==
    IF b # Text(<< "/", "I", "S", "K", "5", "M", "E", "1", "6", "2", "-", "0",
                   "0", "3", "3" >>) \o << CR, LF >>
    THEN ActRaised("AssertionError", "R_IDENT", mode_, idx)
    ELSE Acted("W_REQ_DATA_MODE", mode_, idx)

act_R_IDENT(b, mode_, idx) ==
    IF b # Text(<< "/", "I", "S", "K", "5", "M", "E", "1", "6", "2", "-", "0",
                   "0", "3", "3" >>) \o << CR, LF >>
    THEN ActRaised("AssertionError", "R_IDENT", mode_, idx)
    ELSE IF mode_ = "DATA_READOUT"
    THEN Acted("W_REQ_DATA_MODE", mode_, idx)
    ELSE Acted("W_REQ_PROG_MODE", mode_, idx)

\* R_DATA_READOUT once every part went through set_register (r).
readout_done(r, mode_, idx) ==
    IF r.raised # ""
    THEN [Acted("R_DATA_READOUT", mode_, idx) EXCEPT
             !.raised = r.raised, !.reg = r.reg,
             !.called = (r.reg # NoRegister), !.sane = r.sane]
    ELSE [Acted("W_BREAK", "PROGRAMMING_MODE", idx) EXCEPT
             !.reg = r.reg, !.called = (r.reg # NoRegister), !.sane = r.sane]

\* R_DATA_READOUT on the unpacked datamessage m.
readout_unpacked(m, mode_, idx) ==
    IF m.raised # ""
    THEN ActRaised(m.raised, "R_DATA_READOUT", mode_, idx)
    ELSE IF ~EndsWith(m.text, << CR, LF, Ord("!"), CR, LF >>)
    THEN ActRaised("AssertionError", "R_DATA_READOUT", mode_, idx)
    ELSE readout_done(
             readout_registers(SplitCRLF(SubSeq(m.text, 1, Len(m.text) - 5), 1),
                               1,
                               [raised |-> "", reg |-> NoRegister,
                                sane |-> FALSE]),
             mode_, idx)

act_R_DATA_READOUT(b, mode_, idx) ==
    readout_unpacked(unpack_iec6205621_datamessage(b), mode_, idx)

act_R_ACK_PROG_MODE(b, mode_, idx) ==
    LET expected == append_bcc(<< SOH >> \o Text(<< "P", "0" >>) \o << STX >>
                               \o Text(<< "(", ")" >>) \o << ETX >>).frame
    IN  IF b # expected
        THEN ActRaised("AssertionError", "R_ACK_PROG_MODE", mode_, idx)
        ELSE Acted("W_REQ_OBIS", mode_, idx)

\* R_READ_OBIS after set_register(state.obis_request, value, unit) (r).
read_obis_set(r, mode_, idx) ==
    IF r.raised # ""
    THEN ActRaised(r.raised, "R_READ_OBIS", mode_, idx)
    ELSE [Acted(IF obis_has_next(idx) THEN "W_REQ_OBIS" ELSE "TRY_PUBLISH",
                mode_,
                IF obis_has_next(idx) THEN idx + 1 ELSE idx) EXCEPT
             !.reg = r.reg, !.called = TRUE, !.sane = r.sane,
             !.calls = << RegisterCall(obis_request(idx)) >>]

\* R_READ_OBIS on the parsed dataset v.
read_obis_parsed(v, mode_, idx) ==
    IF v.raised # ""
    THEN ActRaised(v.raised, "R_READ_OBIS", mode_, idx)
    ELSE IF v.address # << >>
    THEN ActRaised("AssertionError", "R_READ_OBIS", mode_, idx)
    ELSE read_obis_set(set_register(obis_request(idx), v), mode_, idx)

\* R_READ_OBIS on the unpacked datamessage m.
read_obis_unpacked(m, mode_, idx) ==
    IF m.raised # ""
    THEN ActRaised(m.raised, "R_READ_OBIS", mode_, idx)
    ELSE read_obis_parsed(parse_iec6205621_dataset(m.text), mode_, idx)

act_R_READ_OBIS(b, mode_, idx) ==
    read_obis_unpacked(unpack_iec6205621_datamessage(b), mode_, idx)

\* The rest of loop() once the receive of an R_ state has filled b.
act(io_, b, mode_, idx) ==
    CASE io_ = "R_IDENT" -> act_R_IDENT(b, mode_, idx)
      [] io_ = "R_DATA_READOUT" -> act_R_DATA_READOUT(b, mode_, idx)
      [] io_ = "R_ACK_PROG_MODE" -> act_R_ACK_PROG_MODE(b, mode_, idx)
      [] io_ = "R_READ_OBIS" -> act_R_READ_OBIS(b, mode_, idx)

\* recv_datamessage, then act: the asserts of recv_datamessage come first.
received(io_, b, mode_, idx) ==
    IF io_ # "R_IDENT" /\ recv_datamessage_check(b) # ""
    THEN ActRaised(recv_datamessage_check(b), io_, mode_, idx)
    ELSE act(io_, b, mode_, idx)

(***************************************************************************)
(* Construction: State.__init__, open(), IskraMe162ValueProcessor.__init__ *)
(* and the server's __init__.                                              *)
(***************************************************************************)
NoFrame == [bytes |-> << >>, baud |-> 0]

\* State.__init__, open() and IskraMe162ValueProcessor.__init__, and main().
ClientInit ==
    /\ io = "W_BREAK" /\ mode = "DATA_READOUT" /\ obis_idx = 0
    /\ buf = << >> /\ cpc = "loop" /\ cbaud = OpenBaud /\ waitT = 0
    /\ clientExc = ""
    /\ sinceSane = 0 /\ lastReg = NoRegister /\ roundLog = << >>
    /\ sentLog = << >> /\ lastSent = NoFrame /\ recvFailed = FALSE /\ progAcked = FALSE
    /\ cstep = "init"
    /\ dms = "check" /\ session = "running" /\ exitCause = ""
    /\ writerOpen = TRUE

\* IEC62056dash21ProtoModeCServer.__init__ and the example data provider.
ServerInit ==
    /\ sstate = ReadState("RECV_REQUEST_MESSAGE") /\ readbuf = << >>
    /\ sbaud = ServerBaud
    /\ cnt = [e182 |-> Initial182, e282 |-> Initial282]
    /\ serverExc = "" /\ idle = 0
    /\ c2s = << >> /\ s2c = << >>

\* WattGauge.__init__
GaugeInit ==
    /\ wg = [t |-> << 0, 0, 0 >>, p |-> << 0, 0, 0 >>, tlast |-> 0,
             watt |-> 0, data_valid |-> FALSE]
    /\ gop = [op |-> "init", time_ms |-> 0, current_wh |-> 0, n |-> 0,
              acted |-> FALSE]

\* WattGauge(), EnergyGauge() and IskraMe162ValueProcessor() as constructed;
\* no function has been called on its own.
WattGaugeNew ==
    [t |-> << 0, 0, 0 >>, p |-> << 0, 0, 0 >>, tlast |-> 0, watt |-> 0,
     data_valid |-> FALSE]
EnergyGaugeNew ==
    [positive |-> WattGaugeNew, negative |-> WattGaugeNew, wprev |-> 0]
NoCall == [fn |-> "", arg |-> << >>, result |-> << >>]

ValueProcessorInit ==
    /\ eg = EnergyGaugeNew
    /\ pub = [now |-> 0, calls |-> 0, step |-> "1.8.0", gap |-> 0,
              has_last |-> FALSE, last_publish |-> 0, times |-> << >>]

LoneInit == ValueProcessorInit /\ fcall = NoCall

\* Microseconds on the clock when the proxy starts (time.time() is far from
\* 0, so that the first byte of a pty is never delayed), and where the
\* clock of the timed proxy stops.
StartClock == 100000
MaxNow == 170000

\* SerialProxy.__init__: two ptys, the worker side of each closed again.
Ptys == {1, 2}
Peer(pty) == 3 - pty

\* SerialPty.__init__ closes worker_fd and keeps its number.  The next
\* openpty() takes the lowest free number, so the number the first pty keeps
\* is the second pty's fd; the number the second pty keeps is free until
\* something opens a descriptor (the event loop's selector, as a rule).
ReusedFds == [i \in Ptys |-> IF i = 1 THEN "pty2" ELSE "other"]
StaleFds == [i \in Ptys |-> IF i = 1 THEN "pty2" ELSE "closed"]

\* SerialPty.__init__: _baudrate = None (0 here), _writelast = 0; nothing is
\* scheduled and nothing was written.  The clock starts at StartClock.
NoWrite == [at |-> 0, prev |-> 0, baud |-> 0, n |-> 0]
TimerNew ==
    [now |-> StartClock,
     writelast |-> [i \in Ptys |-> 0],
     baudrate |-> [i \in Ptys |-> 0],
     due |-> [i \in Ptys |-> 0],
     last |-> [i \in Ptys |-> NoWrite]]

\* ExposedSerialProxy.__init__: the symlink is made and _exposed_as set
\* (exposed_as is FALSE for None); both fds are open.
ExposedNew ==
    [exposed_as |-> TRUE, link |-> "symlink",
     fd |-> [i \in Ptys |-> "pty"],
     unlinks |-> 0, warns |-> 0, reads |-> 0, closes |-> 0]

ProxyInit ==
    /\ pphase = "connect" /\ readers = {} /\ installs = 0
    /\ attached = [i \in Ptys |-> FALSE]
    /\ opens = [i \in Ptys |-> 0]
    /\ pbaud = [i \in Ptys |-> ServerBaud]
    /\ pin = [i \in Ptys |-> << >>]
    /\ writebuf = [i \in Ptys |-> << >>]
    /\ scheduled = [i \in Ptys |-> 0]
    /\ pout = [i \in Ptys |-> << >>]
    /\ readLog = [i \in Ptys |-> << >>]
    /\ mismatches = 0 /\ pexc = ""
    /\ wtimer = TimerNew /\ exposed = ExposedNew

Init ==
    /\ ClientInit /\ ServerInit /\ faults = 0 /\ fed = 0
    /\ GaugeInit /\ ProxyInit /\ wfd = ReusedFds /\ LoneInit

Running == session = "running"

Logged(log, call) == IF Len(log) < MaxRoundLog THEN log \o call ELSE log

(***************************************************************************)
(* The client task, one step per await of loop().                          *)
(***************************************************************************)
\* loop() in an R_ state: a fresh buffer, and into wait_for.
ClientStartRecv ==
    /\ Running /\ cpc = "loop" /\ io \in RStates
    /\ buf' = << >> /\ waitT' = 0 /\ cpc' = "recv" /\ cstep' = "start"
    /\ UNCHANGED << io, mode, obis_idx, cbaud, clientExc, procVars, sentLog,
                    lastSent, recvFailed, progAcked, mainVars, serverVars, lineVars >>
    /\ UNCHANGED asideVars

\* The receive returned b and the rest of loop() came to r.
ClientReceived(b, r) ==
    /\ buf' = b /\ waitT' = 0
    /\ io' = r.io /\ mode' = r.mode /\ obis_idx' = r.idx
    /\ cpc' = IF r.raised # "" THEN "failed" ELSE "loop"
    /\ clientExc' = r.raised
    /\ cstep' = IF r.raised # "" THEN "raised" ELSE "received"
    /\ lastReg' = IF r.called THEN r.reg ELSE lastReg
    /\ sinceSane' = IF r.sane THEN 0 ELSE sinceSane
    /\ roundLog' = Logged(roundLog, r.calls)
    /\ progAcked' = (progAcked \/ (io = "R_ACK_PROG_MODE" /\ r.raised = ""))
    /\ UNCHANGED recvFailed

\* recv_datamessage without its look at a first NAK.
ClientRead_NoNak(b) ==
    IF ~RecvComplete(io, b)
    THEN /\ buf' = b /\ cstep' = "byte"
         /\ UNCHANGED << io, mode, obis_idx, cpc, waitT, clientExc, procVars,
                         recvFailed, progAcked >>
    ELSE ClientReceived(b, received(io, b, mode, obis_idx))

\* reader.read(1) returned a byte and b is the buffer with it.
ClientRead(b) ==
    IF io # "R_IDENT" /\ Len(b) = 1 /\ b[1] = NAK
    THEN /\ buf' = << >> /\ io' = "W_REQ_OBIS" /\ cpc' = "loop"
         /\ waitT' = 0 /\ recvFailed' = TRUE /\ cstep' = "nak"
         /\ UNCHANGED << mode, obis_idx, clientExc, procVars, progAcked >>
    ELSE IF ~RecvComplete(io, b)
    THEN /\ buf' = b /\ cstep' = "byte"
         /\ UNCHANGED << io, mode, obis_idx, cpc, waitT, clientExc, procVars,
                         recvFailed, progAcked >>
    ELSE ClientReceived(b, received(io, b, mode, obis_idx))

\* reader.read(1) returns a byte: recv_text / recv_datamessage go on (a NAK
\* as the first byte of a datamessage ends the receive with an empty
\* buffer), and once they return the rest of loop() acts on the buffer.
RecvByteReady == Running /\ cpc = "recv" /\ s2c # << >>

ClientRecvByte ==
    /\ RecvByteReady
    /\ s2c' = Tail(s2c)
    /\ ClientRead(Append(buf, Head(s2c)))
    /\ UNCHANGED << cbaud, sentLog, lastSent, mainVars, serverVars, c2s, faults >>
    /\ UNCHANGED asideVars

\* wait_for gives up: log.error and the fallback state.
ClientTimeout ==
    /\ Running /\ cpc = "recv" /\ waitT >= RecvTimeout(io)
    /\ io' = IF io = "R_IDENT" THEN "W_LOGIN" ELSE "W_REQ_OBIS"
    /\ buf' = << >> /\ cpc' = "loop" /\ waitT' = 0
    /\ recvFailed' = TRUE /\ cstep' = "timeout" /\ UNCHANGED progAcked
    /\ UNCHANGED << mode, obis_idx, cbaud, clientExc, procVars, sentLog,
                    lastSent, mainVars, serverVars, lineVars >>
    /\ UNCHANGED asideVars

\* send(): writer.write(msg) at the baudrate the line has right now.
ClientWrite ==
    /\ Running /\ cpc = "loop" /\ io \in WStates
    /\ LET sent == [bytes |-> ClientFrame(io, obis_idx), baud |-> cbaud]
       IN  /\ c2s' = c2s \o sent.bytes
           /\ lastSent' = sent
           /\ sentLog' = IF Len(sentLog) < MaxSentLog
                         THEN Append(sentLog, sent) ELSE sentLog
    /\ progAcked' = (progAcked /\ io \notin {"W_BREAK", "W_LOGIN"})
    /\ cpc' = "sent" /\ cstep' = "write"
    /\ UNCHANGED << io, mode, obis_idx, buf, cbaud, waitT, clientExc, procVars,
                    recvFailed, mainVars, serverVars, s2c, faults >>
    /\ UNCHANGED asideVars

\* send() returns after its pause: the baudrate change and the next state.
ClientAfterSend ==
    /\ Running /\ cpc = "sent"
    /\ cbaud' = IF BaudAfterSend(io) = 0 THEN cbaud ELSE BaudAfterSend(io)
    /\ io' = IoAfterSend(io)
    /\ cpc' = "loop" /\ cstep' = "sent"
    /\ UNCHANGED << mode, obis_idx, buf, waitT, clientExc, procVars, sentLog,
                    lastSent, recvFailed, progAcked, mainVars, serverVars, lineVars >>
    /\ UNCHANGED asideVars

\* TRY_PUBLISH: try_publish(), then SLEEP (or END when should_stop); END
\* makes loop() return False and run() finish.
ClientPublish ==
    /\ Running /\ cpc = "loop" /\ io \in {"TRY_PUBLISH", "END"}
    /\ IF io = "TRY_PUBLISH"
       THEN /\ roundLog' = Logged(roundLog, << PublishCall >>)
            /\ io' = IF should_stop THEN "END" ELSE "SLEEP"
            /\ cpc' = cpc
       ELSE /\ cpc' = "done"
            /\ UNCHANGED << io, roundLog >>
    /\ cstep' = "publish"
    /\ UNCHANGED << mode, obis_idx, buf, cbaud, waitT, clientExc, sinceSane,
                    lastReg, sentLog, lastSent, recvFailed, progAcked, mainVars,
                    serverVars, lineVars >>
    /\ UNCHANGED asideVars

\* SLEEP: into asyncio.sleep(2).
ClientSleep ==
    /\ Running /\ cpc = "loop" /\ io = "SLEEP"
    /\ cpc' = "sleep" /\ waitT' = 0 /\ cstep' = "sleep"
    /\ UNCHANGED << io, mode, obis_idx, buf, cbaud, clientExc, procVars,
                    sentLog, lastSent, recvFailed, progAcked, mainVars, serverVars,
                    lineVars >>
    /\ UNCHANGED asideVars

\* The sleep is over: W_REQ_OBIS and obis_reset().
ClientWake ==
    /\ Running /\ cpc = "sleep" /\ waitT >= PollSleep
    /\ io' = "W_REQ_OBIS" /\ obis_idx' = 0 /\ cpc' = "loop" /\ waitT' = 0
    /\ roundLog' = << >> /\ cstep' = "wake"
    /\ UNCHANGED << mode, buf, cbaud, clientExc, sinceSane, lastReg, sentLog,
                    lastSent, recvFailed, progAcked, mainVars, serverVars, lineVars >>
    /\ UNCHANGED asideVars

Client ==
    \/ ClientStartRecv
    \/ ClientRecvByte
    \/ ClientTimeout
    \/ ClientWrite
    \/ ClientAfterSend
    \/ ClientPublish
    \/ ClientSleep
    \/ ClientWake

(***************************************************************************)
(* The line between server and client.  A frame the server writes arrives  *)
(* intact, or the line spoils it: the frame is lost, its last byte has a   *)
(* bit flipped, a single NAK arrives in its place, or the same bit is      *)
(* flipped in its second and third byte (which a block check cannot see).  *)
(***************************************************************************)
LineEffects == { "intact", "lost", "flipped", "nak", "garbled" }

OnLine(data, effect) ==
    CASE effect = "intact" -> data
      [] effect = "lost" -> << >>
      [] effect = "flipped" ->
           [data EXCEPT ![Len(data)] = Xor(data[Len(data)], 1)]
      [] effect = "nak" -> << NAK >>
      [] effect = "garbled" ->
           [data EXCEPT ![2] = Xor(data[2], 1), ![3] = Xor(data[3], 1)]

(***************************************************************************)
(* serve(): one step per pass of its loop that does anything.              *)
(***************************************************************************)
\* self._state.action(readbuf), with the baud on_ack_opt_select switched to.
ServerAction(name, b, c) ==
    CASE name = "RECV_REQUEST_MESSAGE" -> [baud |-> 0] @@ read_request_message(b, c)
      [] name = "RECV_ACK_OPT_SELECT" -> read_ack_opt_select(b, c)
      [] name = "RECV_CMD_IN_DATA_READOUT" ->
           [baud |-> 0] @@ read_cmd_in_data_readout(b, c)
      [] name = "RECV_CMD_IN_PROGRAMMING" ->
           [baud |-> 0] @@ read_cmd_in_programming(b, c)

\* _set_state: the baud is set back on the way to RECV_REQUEST_MESSAGE.
set_state_baud(new_state, baud) ==
    IF new_state = ReadState("RECV_REQUEST_MESSAGE") THEN ServerBaud ELSE baud

ServerAlive == serverExc = "" /\ sstate.kind # "stopped"

\* The state's action returned r: _set_state on the state it hands back.
\* The print of _set_state formats the new state, and WriteState.__repr__
\* takes len() of its data: a TypeError when the data is a Char.
ServerActed(r) ==
    /\ readbuf' = r.buf /\ idle' = 0
    /\ cnt' = r.cnt
    /\ sbaud' = set_state_baud(r.new_state, IF r.baud # 0 THEN r.baud ELSE sbaud)
    /\ IF r.raised # ""
       THEN serverExc' = r.raised /\ sstate' = sstate
       ELSE IF r.new_state = None
       THEN UNCHANGED << serverExc, sstate >>
       ELSE IF ~r.new_state.isbytes
       THEN serverExc' = "TypeError" /\ sstate' = sstate
       ELSE serverExc' = "" /\ sstate' = r.new_state

\* A ReadState and POLLIN: one byte into readbuf, and the state's action.
ServerReadReady ==
    ServerAlive /\ writerOpen /\ sstate.kind = "read" /\ c2s # << >>

ServerReadByte ==
    /\ ServerReadReady
    /\ c2s' = Tail(c2s)
    /\ ServerActed(ServerAction(sstate.name, Append(readbuf, Head(c2s)), cnt))
    /\ UNCHANGED << clientVars, procVars, obsVars, mainVars, s2c, faults >>
    /\ UNCHANGED asideVars

\* A WriteState and POLLOUT: serial.write(data), then the next state.
ServerWrite ==
    /\ ServerAlive /\ writerOpen /\ sstate.kind = "write"
    /\ \E effect \in LineEffects :
          /\ effect = "intact" \/ faults < MaxFaults
          /\ s2c' = s2c \o OnLine(sstate.data, effect)
          /\ faults' = IF effect = "intact" THEN faults ELSE faults + 1
    /\ sstate' = ReadState(sstate.name)
    /\ sbaud' = set_state_baud(ReadState(sstate.name), sbaud)
    /\ UNCHANGED << clientVars, procVars, obsVars, mainVars, readbuf, cnt,
                    serverExc, idle, c2s >>
    /\ UNCHANGED asideVars

\* A ResetState: straight on to its next state.
ServerReset ==
    /\ ServerAlive /\ sstate.kind = "reset"
    /\ sstate' = ReadState(sstate.name)
    /\ sbaud' = set_state_baud(ReadState(sstate.name), sbaud)
    /\ UNCHANGED << clientVars, procVars, obsVars, mainVars, readbuf, cnt,
                    serverExc, idle, lineVars >>
    /\ UNCHANGED asideVars

\* POLLHUP once the client's side is closed: serve() returns.
ServerHup ==
    /\ ServerAlive /\ ~writerOpen /\ sstate.kind \in {"read", "write"}
    /\ sstate' = [sstate EXCEPT !.kind = "stopped"]
    /\ UNCHANGED << clientVars, procVars, obsVars, mainVars, readbuf, sbaud,
                    cnt, serverExc, idle, lineVars >>
    /\ UNCHANGED asideVars

Server ==
    \/ ServerReadByte
    \/ ServerWrite
    \/ ServerReset
    \/ ServerHup

(***************************************************************************)
(* dead_mans_switch and main().                                            *)
(***************************************************************************)
\* ms_since_last_value() against the limit; otherwise asyncio.sleep(1).
DmsCheck ==
    /\ Running /\ dms = "check"
    /\ dms' = IF sinceSane * 1000 >= DmsLimitMs THEN "tripped" ELSE "sleep"
    /\ UNCHANGED << clientVars, procVars, obsVars, session, exitCause,
                    writerOpen, serverVars, lineVars >>
    /\ UNCHANGED asideVars

\* The exceptions of the tasks that are done.
Failures ==
    (IF clientExc # "" THEN {clientExc} ELSE {})
    \cup (IF dms = "tripped" THEN {"DeadMansSwitchTripped"} ELSE {})

\* main() without the close() of the exit stack.
MainReap_LeavesOpen ==
    /\ Running /\ Failures # {}
    /\ exitCause' \in Failures
    /\ session' = "ended"
    /\ UNCHANGED << clientVars, procVars, obsVars, dms, writerOpen, serverVars,
                    lineVars >>
    /\ UNCHANGED asideVars

\* asyncio.wait(FIRST_EXCEPTION) returns, task.result() raises, and the exit
\* stack runs: iec62056_client.close(), then the tasks are cancelled.
MainReap ==
    /\ Running /\ Failures # {}
    /\ exitCause' \in Failures
    /\ session' = "ended" /\ writerOpen' = FALSE
    /\ UNCHANGED << clientVars, procVars, obsVars, dms, serverVars, lineVars >>
    /\ UNCHANGED asideVars

(***************************************************************************)
(* A second passes: only while every task is waiting and no byte is on     *)
(* its way.  It ends the pause of dead_mans_switch.                        *)
(***************************************************************************)
ServerIdle == ~ServerAlive \/ (sstate.kind = "read" /\ c2s = << >>)

ClientWaiting ==
    \/ cpc = "recv" /\ s2c = << >> /\ waitT < RecvTimeout(io)
    \/ cpc = "sleep" /\ waitT < PollSleep

Tick ==
    /\ Running /\ Failures = {} /\ dms = "sleep"
    /\ ServerIdle /\ ClientWaiting
    /\ waitT' = waitT + DmsPause
    /\ sinceSane' = sinceSane + DmsPause
    /\ dms' = "check"
    /\ UNCHANGED << io, mode, obis_idx, buf, cpc, cbaud, clientExc, lastReg,
                    roundLog, obsVars, session, exitCause, writerOpen,
                    serverVars, lineVars >>
    /\ UNCHANGED asideVars

Next == Client \/ Server \/ DmsCheck \/ MainReap \/ Tick

Spec == Init /\ [][Next]_vars

\* The event loop runs every task that is ready, the server's loop keeps
\* polling, and time moves on.
\* The two reads are enabled exactly when a byte is waiting (every branch of
\* their effect is defined and takes the byte off the line), so their weak
\* fairness is written out with that condition.
Fairness ==
    /\ WF_vars(ClientStartRecv)
    /\ WF_vars(ClientTimeout)
    /\ WF_vars(ClientWrite)
    /\ WF_vars(ClientAfterSend)
    /\ WF_vars(ClientPublish)
    /\ WF_vars(ClientSleep)
    /\ WF_vars(ClientWake)
    /\ ([]<>~RecvByteReady \/ []<><<ClientRecvByte>>_vars)
    /\ WF_vars(ServerWrite)
    /\ WF_vars(ServerReset)
    /\ WF_vars(ServerHup)
    /\ ([]<>~ServerReadReady \/ []<><<ServerReadByte>>_vars)
    /\ WF_vars(DmsCheck)
    /\ WF_vars(MainReap)
    /\ WF_vars(Tick)

SpecLive == Spec /\ Fairness

(***************************************************************************)
(* The server on its own: serve() with a peer that sends what it likes,    *)
(* one message at a time, and is silent in between.                        *)
(***************************************************************************)
\* How many messages the peer sends, the length of its run of garbage, and
\* the silence that is watched (in steps of IdleStep seconds).
MaxFed == 3
MaxGarbage == 38
IdleStep == 30
MaxIdle == 120

\* ACK V Z Y CR LF
AckOption(v, z, y) == << ACK >> \o Text(<< v, z, y >>) \o << CR, LF >>

\* "B" and then "A"s: no request, and longer than the buffer is kept.
Garbage == [i \in 1..MaxGarbage |-> IF i = 1 THEN Ord("B") ELSE Ord("A")]

\* A read command whose block check character comes to 0x0A.
LineFeedBccFrame ==
    append_bcc(<< SOH >> \o Text(<< "R", "1" >>) \o << STX >>
               \o Text(<< "i", "(", ")" >>) \o << ETX >>).frame

\* SOH and a payload that no closer ends.
UnclosedFrame == << SOH >> \o Garbage

\* One byte of noise and then the break frame.
StrayThenBreak == << Ord("A") >> \o ClientFrame("W_BREAK", 0)

PeerMessages ==
    { ClientFrame("W_LOGIN", 0),
      Text(<< "!" >>) \o << CR, LF >>,
      AckOption("0", "5", "0"), AckOption("0", "5", "1"),
      AckOption("0", "6", "0"), AckOption("1", "5", "0"),
      AckOption("0", "9", "1"), AckOption("0", "5", "9"),
      ClientFrame("W_BREAK", 0),
      ClientFrame("W_REQ_OBIS", 0),
      OnLine(ClientFrame("W_REQ_OBIS", 0), "flipped"),
      << NAK >>,
      Garbage,
      StrayThenBreak,
      LineFeedBccFrame,
      UnclosedFrame }

\* No client of this repository runs: its variables stay as they are here,
\* with the peer's side of the line open.
PeerInit ==
    /\ io = "END" /\ mode = "DATA_READOUT" /\ obis_idx = 0
    /\ buf = << >> /\ cpc = "done" /\ cbaud = OpenBaud /\ waitT = 0
    /\ clientExc = ""
    /\ sinceSane = 0 /\ lastReg = NoRegister /\ roundLog = << >>
    /\ sentLog = << >> /\ lastSent = NoFrame /\ recvFailed = FALSE /\ progAcked = FALSE
    /\ cstep = "init"
    /\ dms = "sleep" /\ session = "ended" /\ exitCause = ""
    /\ writerOpen = TRUE

InitServer ==
    /\ PeerInit /\ ServerInit /\ faults = MaxFaults /\ fed = 0
    /\ GaugeInit /\ ProxyInit /\ wfd = ReusedFds /\ LoneInit

ServerListening ==
    ServerAlive /\ writerOpen /\ sstate.kind = "read" /\ c2s = << >>

\* The peer writes a message once the server has taken the one before and
\* the peer has taken the server's reply.
PeerSends ==
    /\ ServerListening /\ s2c = << >> /\ fed < MaxFed
    /\ \E m \in PeerMessages : c2s' = m
    /\ fed' = fed + 1
    /\ UNCHANGED << clientVars, procVars, obsVars, mainVars, serverVars, s2c,
                    faults, gaugeVars, proxyVars, loneVars, timeVars >>

\* The peer takes what the server has written.
PeerReads ==
    /\ s2c # << >> /\ sstate.kind # "write"
    /\ s2c' = << >>
    /\ UNCHANGED << clientVars, procVars, obsVars, mainVars, serverVars, c2s,
                    faults, asideVars >>

\* The peer closes its side.
PeerHangsUp ==
    /\ ServerListening /\ s2c = << >>
    /\ writerOpen' = FALSE
    /\ UNCHANGED << clientVars, procVars, obsVars, dms, session, exitCause,
                    serverVars, lineVars, asideVars >>

\* poll(30) of a ReadState comes back empty, again and again, for IdleStep
\* seconds: serve() goes round its loop and changes nothing.
IdlePasses ==
    /\ ServerListening /\ idle < MaxIdle
    /\ idle' = idle + IdleStep
    /\ UNCHANGED << clientVars, procVars, obsVars, mainVars, sstate, readbuf,
                    sbaud, cnt, serverExc, lineVars, asideVars >>

NextServer ==
    \/ PeerSends
    \/ PeerReads
    \/ PeerHangsUp
    \/ IdlePasses
    \/ ServerReadByte
    \/ ServerWrite
    \/ ServerReset
    \/ ServerHup

SpecServer == InitServer /\ [][NextServer]_vars

(***************************************************************************)
(* The proxy on its own: SerialProxy.run() with a peer on each pty that    *)
(* opens and closes it, sets its baudrate and writes bytes.                *)
(***************************************************************************)
MaxBytes == 2
MaxOpens == 2
\* The bytes a peer writes, one after the other: "A", "B", "C", ...
PeerByte(k) == Ord("A") + k - 1
ProxyBauds == {LoginBaud, DataBaud}

InitProxy ==
    /\ PeerInit /\ ServerInit /\ faults = MaxFaults /\ fed = 0
    /\ GaugeInit /\ ProxyInit /\ wfd \in {ReusedFds, StaleFds} /\ LoneInit

notProxyVars == << clientVars, procVars, obsVars, mainVars, serverVars,
                   lineVars, fed, gaugeVars, loneVars, timeVars >>

\* The event loop of asyncio.run(proxy.run()) runs callbacks.
LoopRuns == pphase \in {"connect", "run"}

\* A peer opens the worker side of a pty at a baudrate.
PeerAttach(i, rate) ==
    /\ ~attached[i] /\ opens[i] < MaxOpens
    /\ attached' = [attached EXCEPT ![i] = TRUE]
    /\ opens' = [opens EXCEPT ![i] = @ + 1]
    /\ pbaud' = [pbaud EXCEPT ![i] = rate]
    /\ UNCHANGED << pphase, readers, installs, wfd, pin, writebuf, scheduled,
                    pout, readLog, mismatches, pexc, notProxyVars >>

\* A peer closes it again.
PeerDetach(i) ==
    /\ attached[i]
    /\ attached' = [attached EXCEPT ![i] = FALSE]
    /\ UNCHANGED << pphase, readers, installs, wfd, opens, pbaud, pin,
                    writebuf, scheduled, pout, readLog, mismatches, pexc,
                    notProxyVars >>

\* A peer sets another baudrate on its side.
PeerSetsBaud(i, rate) ==
    /\ attached[i] /\ pbaud[i] # rate
    /\ pbaud' = [pbaud EXCEPT ![i] = rate]
    /\ UNCHANGED << pphase, readers, installs, wfd, attached, opens, pin,
                    writebuf, scheduled, pout, readLog, mismatches, pexc,
                    notProxyVars >>

\* A peer writes its next byte.
PeerWrites(i) ==
    /\ attached[i] /\ Len(readLog[i]) + Len(pin[i]) < MaxBytes
    /\ pin' = [pin EXCEPT ![i] =
                  Append(@, PeerByte(Len(readLog[i]) + Len(pin[i]) + 1))]
    /\ UNCHANGED << pphase, readers, installs, wfd, attached, opens, pbaud,
                    writebuf, scheduled, pout, readLog, mismatches, pexc,
                    notProxyVars >>

\* hup_count(poller.poll(0)): the poller holds the two worker_fd numbers.
PollNval == \E d \in Ptys : wfd[d] = "closed"
PollHup(d) == wfd[d] = "pty2" /\ ~attached[2]
hup_count == Cardinality({d \in Ptys : PollHup(d)})

\* _detect_connect_and_hup, first loop: a poll that finds no HUP installs
\* the readers; one that finds a HUP sleeps and polls again.
ProxyConnects ==
    /\ pphase = "connect"
    /\ IF PollNval
       THEN /\ pexc' = "AssertionError" /\ pphase' = "done"
            /\ UNCHANGED << readers, installs >>
       ELSE /\ hup_count = 0
            /\ readers' = Ptys /\ installs' = installs + 1
            /\ pphase' = "run" /\ pexc' = pexc
    /\ UNCHANGED << wfd, attached, opens, pbaud, pin, writebuf, scheduled,
                    pout, readLog, mismatches, notProxyVars >>

\* Second loop: a poll that finds a HUP ends it, and the finally block
\* removes both readers.
ProxyDisconnects ==
    /\ pphase = "run" /\ hup_count # 0
    /\ readers' = {} /\ pphase' = "done"
    /\ UNCHANGED << installs, wfd, attached, opens, pbaud, pin, writebuf,
                    scheduled, pout, readLog, mismatches, pexc, notProxyVars >>

\* The task is cancelled: caught in the second loop, not in the first.
ProxyCancelled ==
    /\ LoopRuns
    /\ pphase' = "done" /\ readers' = {}
    /\ pexc' = IF pphase = "connect" THEN "CancelledError" ELSE pexc
    /\ UNCHANGED << installs, wfd, attached, opens, pbaud, pin, writebuf,
                    scheduled, pout, readLog, mismatches, notProxyVars >>

\* A pop that takes the entry written last.
pop0_Last(q) == [item |-> q[Len(q)], rest |-> SubSeq(q, 1, Len(q) - 1)]

\* self._writebuf.pop(0)
pop0(q) == [item |-> Head(q), rest |-> Tail(q)]

\* SerialPty.write_byte
write_byte(q, byte, baudrate) == Append(q, [byte |-> byte, baud |-> baudrate])

\* _reader with a write_byte that schedules a write for every byte.
ProxyReader_SchedulesEach(i) ==
    /\ LoopRuns /\ i \in readers
    /\ pin[i] # << >> \/ ~attached[i]
    /\ IF pin[i] # << >>
       THEN /\ pin' = [pin EXCEPT ![i] = Tail(@)]
            /\ readLog' = [readLog EXCEPT ![i] = Append(@, Head(pin[i]))]
            /\ writebuf' = [writebuf EXCEPT ![Peer(i)] =
                               write_byte(@, Head(pin[i]), pbaud[i])]
            /\ scheduled' = [scheduled EXCEPT ![Peer(i)] = @ + 1]
            /\ readers' = readers
       ELSE /\ readers' = {}
            /\ UNCHANGED << pin, readLog, writebuf, scheduled >>
    /\ UNCHANGED << pphase, installs, wfd, attached, opens, pbaud, pout,
                    mismatches, pexc, notProxyVars >>

\* SerialProxy._reader, called when the fd of pty i is readable or in HUP:
\* read_byte returns a byte, or raises HangupError once nothing is left and
\* no peer has the worker side open.
SerialProxy_reader(i) ==
    /\ LoopRuns /\ i \in readers
    /\ pin[i] # << >> \/ ~attached[i]
    /\ IF pin[i] # << >>
       THEN /\ pin' = [pin EXCEPT ![i] = Tail(@)]
            /\ readLog' = [readLog EXCEPT ![i] = Append(@, Head(pin[i]))]
            /\ writebuf' = [writebuf EXCEPT ![Peer(i)] =
                               write_byte(@, Head(pin[i]), pbaud[i])]
            /\ scheduled' = [scheduled EXCEPT ![Peer(i)] =
                                IF Len(writebuf'[Peer(i)]) = 1 THEN @ + 1 ELSE @]
            /\ readers' = readers
       ELSE /\ readers' = {}
            /\ UNCHANGED << pin, readLog, writebuf, scheduled >>
    /\ UNCHANGED << pphase, installs, wfd, attached, opens, pbaud, pout,
                    mismatches, pexc >>

ProxyReader(i) == SerialProxy_reader(i) /\ UNCHANGED notProxyVars

\* SerialPty._background_write
ProxyBackgroundWrite(i) ==
    /\ LoopRuns /\ scheduled[i] > 0
    /\ IF writebuf[i] = << >>
       THEN /\ pexc' = "AssertionError"
            /\ scheduled' = [scheduled EXCEPT ![i] = @ - 1]
            /\ UNCHANGED << writebuf, pout, mismatches >>
       ELSE /\ writebuf' = [writebuf EXCEPT ![i] = pop0(@).rest]
            /\ mismatches' = IF pop0(writebuf[i]).item.baud # pbaud[i]
                             THEN mismatches + 1 ELSE mismatches
            /\ pout' = [pout EXCEPT ![i] = Append(@, pop0(writebuf[i]).item.byte)]
            /\ scheduled' = [scheduled EXCEPT ![i] =
                                IF writebuf'[i] # << >> THEN @ ELSE @ - 1]
            /\ pexc' = pexc
    /\ UNCHANGED << pphase, readers, installs, wfd, attached, opens, pbaud,
                    pin, readLog, notProxyVars >>

NextProxy ==
    \/ \E i \in Ptys, rate \in ProxyBauds : PeerAttach(i, rate)
    \/ \E i \in Ptys : PeerDetach(i)
    \/ \E i \in Ptys, rate \in ProxyBauds : PeerSetsBaud(i, rate)
    \/ \E i \in Ptys : PeerWrites(i)
    \/ ProxyConnects
    \/ ProxyDisconnects
    \/ ProxyCancelled
    \/ \E i \in Ptys : ProxyReader(i)
    \/ \E i \in Ptys : ProxyBackgroundWrite(i)

SpecProxy == InitProxy /\ [][NextProxy]_vars

(***************************************************************************)
(* The gauge on its own: a WattGauge fed with samples and reset at will.   *)
(* _t and _p are kept as sequences: _t[0], _t[1], _t[2] are t[1], t[2],    *)
(* t[3] here.                                                              *)
(***************************************************************************)
MaxSamples == 4
TimeSteps == {0, 5000, 20000, 70000, 300000}
WhSteps == {0, 1, 6}

tdelta(g) == g.t[3] - g.t[1]
pdelta(g) == g.p[3] - g.p[1]

\* Enough values whatever the time they took.
there_are_enough_values_AnyTime(g) ==
    pdelta(g) >= 2 \/ tdelta(g) >= 300000

there_are_enough_values(g) ==
    \/ tdelta(g) >= 20000 /\ pdelta(g) >= 6
    \/ tdelta(g) >= 50000 /\ pdelta(g) >= 2
    \/ tdelta(g) >= 300000

\* A reset that starts the interval at the latest change.
reset_FromLatest(g) ==
    IF there_are_enough_values(g)
    THEN [g EXCEPT !.t = << g.t[3], g.t[2], g.t[3] >>,
                   !.p = << g.p[3], g.p[2], g.p[3] >>]
    ELSE g

\* A reset that moves the ring on whether there are enough values or not.
reset_Always(g) ==
    [g EXCEPT !.t = << g.t[2], g.t[3], g.t[3] >>,
              !.p = << g.p[2], g.p[3], g.p[3] >>]

reset(g) ==
    IF there_are_enough_values(g)
    THEN [g EXCEPT !.t = << g.t[2], g.t[3], g.t[3] >>,
                   !.p = << g.p[2], g.p[3], g.p[3] >>]
    ELSE g

\* A recalculation in watt hours per second.
recalculate_if_sensible_PerSecond(g) ==
    IF there_are_enough_values(g)
    THEN [g EXCEPT !.watt = (pdelta(g) * 3600) \div tdelta(g)]
    ELSE IF g.tlast - g.t[1] > 300000
    THEN [g EXCEPT !.watt = 0]
    ELSE g

recalculate_if_sensible(g) ==
    IF there_are_enough_values(g)
    THEN [g EXCEPT !.watt = (pdelta(g) * 1000 * 3600) \div tdelta(g)]
    ELSE IF g.tlast - g.t[1] > 300000
    THEN [g EXCEPT !.watt = 0]
    ELSE g

\* A no-change branch that takes the quotient whether it is lower or not.
unchanged_energy_AnyQuotient(g) ==
    IF g.tlast - g.t[3] > 30000
    THEN [g EXCEPT !.watt = (1000 * 3600) \div (g.tlast - g.t[3])]
    ELSE g

\* The no-change branch: the wattage is lowered once the counter has stood
\* still for more than 30 s.
unchanged_energy(g) ==
    IF g.tlast - g.t[3] > 30000
       /\ (1000 * 3600) \div (g.tlast - g.t[3]) < g.watt
    THEN [g EXCEPT !.watt = (1000 * 3600) \div (g.tlast - g.t[3])]
    ELSE g

\* The ring takes a changed counter.
changed_energy(g, time_ms, current_wh) ==
    IF g.t[1] = g.t[2]
    THEN [g EXCEPT !.t = << g.t[1], time_ms, time_ms >>,
                   !.p = << g.p[1], current_wh, current_wh >>]
    ELSE [g EXCEPT !.t = << g.t[1], g.t[3], time_ms >>,
                   !.p = << g.p[1], g.p[3], current_wh >>]

\* The change before the last took more than 60 s for at most 1 Wh, and
\* the last less than 15 s.
spike(g) ==
    /\ g.t[2] - g.t[1] > 60000
    /\ g.p[2] - g.p[1] <= 1
    /\ g.t[3] - g.t[2] < 15000

after_change(g) == recalculate_if_sensible(IF spike(g) THEN reset(g) ELSE g)

set_active_energy_total(g, time_ms, current_wh) ==
    IF ~g.data_valid
    THEN [t |-> << time_ms, time_ms, time_ms >>,
          p |-> << current_wh, current_wh, current_wh >>,
          tlast |-> time_ms, watt |-> 0, data_valid |-> TRUE]
    ELSE IF current_wh = g.p[3]
    THEN unchanged_energy([g EXCEPT !.tlast = time_ms])
    ELSE after_change(changed_energy([g EXCEPT !.tlast = time_ms],
                                     time_ms, current_wh))

\* What set_active_energy_total(time_ms, current_wh) divides by: the time
\* since t2 in the no-change branch, tdelta in _recalculate_if_sensible.
divisors(g, time_ms, current_wh) ==
    IF ~g.data_valid
    THEN {}
    ELSE IF current_wh = g.p[3]
    THEN IF time_ms - g.t[3] > 30000 THEN {time_ms - g.t[3]} ELSE {}
    ELSE LET changed == changed_energy([g EXCEPT !.tlast = time_ms],
                                       time_ms, current_wh)
             ring == IF spike(changed) THEN reset(changed) ELSE changed
         IN  IF there_are_enough_values(ring) THEN {tdelta(ring)} ELSE {}

InitGauge ==
    /\ PeerInit /\ ServerInit /\ faults = MaxFaults /\ fed = 0
    /\ GaugeInit /\ ProxyInit /\ wfd = ReusedFds /\ LoneInit

notGaugeVars == << clientVars, procVars, obsVars, mainVars, serverVars,
                   lineVars, fed, proxyVars, loneVars, timeVars >>

\* A sample: the clock and the counter have moved on by dt and dwh.
GaugeSample(dt, dwh) ==
    /\ gop.n < MaxSamples
    /\ wg' = set_active_energy_total(wg, gop.time_ms + dt, gop.current_wh + dwh)
    /\ gop' = [op |-> "sample", time_ms |-> gop.time_ms + dt,
               current_wh |-> gop.current_wh + dwh, n |-> gop.n + 1,
               acted |-> wg'.t # wg.t]
    /\ UNCHANGED notGaugeVars

GaugeReset ==
    /\ wg' = reset(wg)
    /\ gop' = [gop EXCEPT !.op = "reset", !.acted = (wg'.t # wg.t)]
    /\ UNCHANGED notGaugeVars

NextGauge ==
    \/ \E dt \in TimeSteps, dwh \in WhSteps : GaugeSample(dt, dwh)
    \/ GaugeReset

SpecGauge == InitGauge /\ [][NextGauge]_vars

(***************************************************************************)
(* The gauge fed with a slow first Wh and a burst after it.                *)
(***************************************************************************)
SpikeTimeSteps == {0, 2000, 120000}
SpikeWhSteps == {0, 1, 9}

NextSpike ==
    \/ \E dt \in SpikeTimeSteps, dwh \in SpikeWhSteps : GaugeSample(dt, dwh)
    \/ GaugeReset

SpecSpike == InitGauge /\ [][NextSpike]_vars

(***************************************************************************)
(* The EnergyGauge on its own: both counters fed, reset and read at will.  *)
(***************************************************************************)
MaxEnergyCalls == 5
EnergyTimeSteps == {0, 3600000}
PositiveWhSteps == {0, 12, 20}
NegativeWhSteps == {0, 20}

interval_since_last_change(g) == g.tlast - g.t[3]

Abs(x) == IF x < 0 THEN 0 - x ELSE x

\* The negative gauge is read on a tie as well.
get_instantaneous_power_TieIsPositive(e) ==
    IF interval_since_last_change(e.positive)
           <= interval_since_last_change(e.negative)
    THEN e.positive.watt
    ELSE 0 - e.negative.watt

get_instantaneous_power(e) ==
    IF interval_since_last_change(e.positive)
           < interval_since_last_change(e.negative)
    THEN e.positive.watt
    ELSE 0 - e.negative.watt

\* 0.6 < float(watt) / float(wprev) < 1.6, for wprev # 0: the quotient of
\* two integers of this size is on the same side of 0.6 and of 1.6 in
\* floating point as it is exactly.
factor_is_small(watt, wprev) ==
    IF wprev > 0
    THEN 6 * wprev < 10 * watt /\ 10 * watt < 16 * wprev
    ELSE 6 * wprev > 10 * watt /\ 10 * watt > 16 * wprev

\* A change that needs a factor outside [0.6, 1.6].
significant_Closed(watt, wprev) ==
    IF (wprev < 0 /\ watt > 0) \/ (watt < 0 /\ wprev > 0) THEN TRUE
    ELSE IF wprev = 0 /\ -20 < watt /\ watt < 20 THEN FALSE
    ELSE IF wprev = 0 THEN TRUE
    ELSE IF wprev > 0
    THEN ~(6 * wprev <= 10 * watt /\ 10 * watt <= 16 * wprev)
    ELSE ~(6 * wprev >= 10 * watt /\ 10 * watt >= 16 * wprev)

significant(watt, wprev) ==
    IF (wprev < 0 /\ watt > 0) \/ (watt < 0 /\ wprev > 0) THEN TRUE
    ELSE IF wprev = 0 /\ -20 < watt /\ watt < 20 THEN FALSE
    ELSE IF wprev = 0 THEN TRUE
    ELSE ~factor_is_small(watt, wprev)

has_significant_change(e) == significant(get_instantaneous_power(e), e.wprev)

\* A reset that leaves _wprev as it was.
energy_reset_KeepsWprev(e) ==
    [positive |-> reset(e.positive), negative |-> reset(e.negative),
     wprev |-> e.wprev]

\* EnergyGauge.reset
energy_reset(e) ==
    [positive |-> reset(e.positive), negative |-> reset(e.negative),
     wprev |-> get_instantaneous_power(e)]

InitEnergy ==
    /\ PeerInit /\ ServerInit /\ faults = MaxFaults /\ fed = 0
    /\ GaugeInit /\ ProxyInit /\ wfd = ReusedFds /\ LoneInit

notLoneVars == << clientVars, procVars, obsVars, mainVars, serverVars,
                  lineVars, fed, gaugeVars, proxyVars, timeVars >>

\* set_positive_active_energy_total and set_negative_active_energy_total,
\* with the clock and the counter moved on by dt and dwh.
EnergySetPositive(dt, dwh) ==
    /\ pub.calls < MaxEnergyCalls
    /\ eg' = [eg EXCEPT !.positive =
                 set_active_energy_total(@, pub.now + dt, @.p[3] + dwh)]
    /\ pub' = [pub EXCEPT !.now = @ + dt, !.calls = @ + 1]
    /\ fcall' = NoCall
    /\ UNCHANGED notLoneVars

EnergySetNegative(dt, dwh) ==
    /\ pub.calls < MaxEnergyCalls
    /\ eg' = [eg EXCEPT !.negative =
                 set_active_energy_total(@, pub.now + dt, @.p[3] + dwh)]
    /\ pub' = [pub EXCEPT !.now = @ + dt, !.calls = @ + 1]
    /\ fcall' = NoCall
    /\ UNCHANGED notLoneVars

EnergyReset ==
    /\ eg' = energy_reset(eg)
    /\ fcall' = NoCall
    /\ UNCHANGED << pub, notLoneVars >>

\* The two reads, with what they saw and what they returned.
EnergyPower ==
    /\ fcall' = [fn |-> "get_instantaneous_power",
                 arg |-> << interval_since_last_change(eg.positive),
                            interval_since_last_change(eg.negative),
                            eg.positive.watt, eg.negative.watt >>,
                 result |-> << get_instantaneous_power(eg) >>]
    /\ UNCHANGED << eg, pub, notLoneVars >>

EnergyChange ==
    /\ fcall' = [fn |-> "has_significant_change",
                 arg |-> << get_instantaneous_power(eg), eg.wprev >>,
                 result |-> << has_significant_change(eg) >>]
    /\ UNCHANGED << eg, pub, notLoneVars >>

NextEnergy ==
    \/ \E dt \in EnergyTimeSteps, dwh \in PositiveWhSteps :
           EnergySetPositive(dt, dwh)
    \/ \E dt \in EnergyTimeSteps, dwh \in NegativeWhSteps :
           EnergySetNegative(dt, dwh)
    \/ EnergyReset
    \/ EnergyPower
    \/ EnergyChange

SpecEnergy == InitEnergy /\ [][NextEnergy]_vars

(***************************************************************************)
(* The value processor on its own: poll rounds of set_register('1.8.0'),   *)
(* set_register('2.8.0') and try_publish(), and the sleep between them.    *)
(* The clock is in ms.                                                     *)
(***************************************************************************)
MaxClock == 150000
MaxPositiveWh == 12
MaxNegativeWh == 6
PollSteps == {5000, 60000}
RoundWhSteps == {0, 6}

\* is_time_to_publish, with tdelta_s = int(time.time() - _last_publish).
tdelta_s(p) == IF p.has_last THEN (p.now - p.last_publish) \div 1000 ELSE 30

\* Publishing 20 s after the last time.
is_time_to_publish_After20(p, e) ==
    \/ tdelta_s(p) >= 120
    \/ tdelta_s(p) >= 60 /\ Abs(get_instantaneous_power(e)) >= 400
    \/ tdelta_s(p) >= 20 /\ has_significant_change(e)

is_time_to_publish(p, e) ==
    \/ tdelta_s(p) >= 120
    \/ tdelta_s(p) >= 60 /\ Abs(get_instantaneous_power(e)) >= 400
    \/ tdelta_s(p) >= 25 /\ has_significant_change(e)

\* The times of the last two publisher.publish calls.
LastTwo(times, t) == IF times = << >> THEN << t >> ELSE << times[Len(times)], t >>

InitPublish ==
    /\ PeerInit /\ ServerInit /\ faults = MaxFaults /\ fed = 0
    /\ GaugeInit /\ ProxyInit /\ wfd = ReusedFds /\ LoneInit

\* set_register(address, value, unit) for the two counters, the counter
\* moved on by dwh.
PubSetRegister(address, dwh) ==
    /\ pub.step = address
    /\ IF address = "1.8.0"
       THEN eg.positive.p[3] + dwh <= MaxPositiveWh
       ELSE eg.negative.p[3] + dwh <= MaxNegativeWh
    /\ IF address = "1.8.0"
       THEN /\ eg' = [eg EXCEPT !.positive =
                         set_active_energy_total(@, pub.now, @.p[3] + dwh)]
            /\ pub' = [pub EXCEPT !.step = "2.8.0"]
       ELSE /\ eg' = [eg EXCEPT !.negative =
                         set_active_energy_total(@, pub.now, @.p[3] + dwh)]
            /\ pub' = [pub EXCEPT !.step = "try_publish"]
    /\ fcall' = NoCall
    /\ UNCHANGED notLoneVars

\* try_publish()
PubTryPublish ==
    /\ pub.step = "try_publish"
    /\ IF is_time_to_publish(pub, eg)
       THEN /\ pub' = [pub EXCEPT !.step = "sleep",
                                  !.has_last = TRUE, !.last_publish = pub.now,
                                  !.times = LastTwo(@, pub.now)]
            /\ eg' = energy_reset(eg)
       ELSE /\ pub' = [pub EXCEPT !.step = "sleep"]
            /\ eg' = eg
    /\ fcall' = [fn |-> "try_publish", arg |-> << pub.now >>,
                 result |-> << is_time_to_publish(pub, eg) >>]
    /\ UNCHANGED notLoneVars

\* The client sleeps and reads the counters again.
PubSleep(dt) ==
    /\ pub.step = "sleep" /\ pub.now + dt <= MaxClock
    /\ pub' = [pub EXCEPT !.step = "1.8.0", !.now = @ + dt,
                          !.gap = IF dt > @ THEN dt ELSE @]
    /\ fcall' = NoCall
    /\ UNCHANGED << eg, notLoneVars >>

NextPublish ==
    \/ \E address \in {"1.8.0", "2.8.0"}, dwh \in RoundWhSteps :
           PubSetRegister(address, dwh)
    \/ PubTryPublish
    \/ \E dt \in PollSteps : PubSleep(dt)

SpecPublish == InitPublish /\ [][NextPublish]_vars

(***************************************************************************)
(* The block check character on its own: append_bcc and check_bcc are      *)
(* applied to every byte string of up to MaxFrameLen bytes over            *)
(* FrameBytes, well-formed or not.                                         *)
(***************************************************************************)
MaxFrameLen == 5
FrameBytes == {SOH, STX, ETX, EOT, 66, 48}
Frames == UNION {[1..n -> FrameBytes] : n \in 0..MaxFrameLen}

InitBcc ==
    /\ PeerInit /\ ServerInit /\ faults = MaxFaults /\ fed = 0
    /\ GaugeInit /\ ProxyInit /\ wfd = ReusedFds /\ ValueProcessorInit
    /\ fcall \in {[fn |-> "", arg |-> f, result |-> << >>] : f \in Frames}

\* append_bcc(f): result is << returned, frame >>, frame empty when it raised.
BccAppend ==
    /\ fcall.fn = ""
    /\ LET r == append_bcc(fcall.arg)
       IN  fcall' = [fn |-> "append_bcc", arg |-> fcall.arg,
                     result |-> << r.ok, r.frame >>]
    /\ UNCHANGED << notLoneVars, eg, pub >>

\* check_bcc(append_bcc(f)), for the inputs append_bcc returned a frame for.
BccCheck ==
    /\ fcall.fn = "append_bcc"
    /\ fcall.result[1]
    /\ fcall' = [fn |-> "check_bcc", arg |-> fcall.arg,
                 result |-> << check_bcc(fcall.result[2]) = "ok",
                               fcall.result[2] >>]
    /\ UNCHANGED << notLoneVars, eg, pub >>

\* unpack_iec6205621_datamessage(f): result is << raised, text >>.
BccUnpack ==
    /\ fcall.fn = ""
    /\ LET r == unpack_iec6205621_datamessage(fcall.arg)
       IN  fcall' = [fn |-> "unpack_datamessage", arg |-> fcall.arg,
                     result |-> << r.raised, r.text >>]
    /\ UNCHANGED << notLoneVars, eg, pub >>

NextBcc == BccAppend \/ BccCheck \/ BccUnpack

SpecBcc == InitBcc /\ [][NextBcc]_vars

(***************************************************************************)
(* ElectricityObis.set_value on its own: an object of each variant, built  *)
(* by from_code with _value = 0, has set_value called on it up to          *)
(* MaxSetValues times with values and units drawn from small sets.         *)
(***************************************************************************)
MaxSetValues == 2
ObisCodes == {Code_1_8_0, Code_2_8_0, Code_C_1_0, Code_F_F,
              Text(<< "1", ".", "7", ".", "0" >>),
              Text(<< "0", ".", "9", ".", "1" >>)}
\* 0, 1.2345, 2.000999 and 1234.5678
SetValues == {[int |-> 0, frac |-> 0], [int |-> 1, frac |-> 234500],
              [int |-> 2, frac |-> 999], [int |-> 1234, frac |-> 567800]}
SetUnits == {Unit_Wh, Unit_W, Unit_kWh, Text(<< "k", "W" >>), Text(<< "k" >>),
             Text(<< "M", "W", "h" >>), Text(<< "w", "h" >>), << >>}

\* ElectricityObis.__init__: _value = 0.  arg[1] is the unit of the variant
\* from_code chose, result[2] the stored _value.
InitObis ==
    /\ PeerInit /\ ServerInit /\ faults = MaxFaults /\ fed = 0
    /\ GaugeInit /\ ProxyInit /\ wfd = ReusedFds /\ ValueProcessorInit
    /\ fcall \in {[fn |-> "from_code", arg |-> << from_code(code).unit >>,
                    result |-> << TRUE, [int |-> 0, frac |-> 0], 0 >>] :
                       code \in ObisCodes}

\* obis.set_value(value, unit): arg is << obis.unit, value, a unit was given,
\* unit, _value before the call >>, result << returned, _value after the
\* call, calls so far >>.  When it raises, _value is not assigned.
ObisSetValue(value, hasUnit, unit) ==
    /\ fcall.fn \in {"from_code", "set_value"}
    /\ fcall.result[3] < MaxSetValues
    /\ LET r == set_value(fcall.arg[1], value, hasUnit, unit)
       IN  fcall' = [fn |-> "set_value",
                     arg |-> << fcall.arg[1], value, hasUnit, unit,
                                fcall.result[2] >>,
                     result |-> << r.ok,
                                   IF r.ok THEN r.value ELSE fcall.result[2],
                                   fcall.result[3] + 1 >>]
    /\ UNCHANGED << notLoneVars, eg, pub >>

NextObis ==
    \E value \in SetValues :
        \/ ObisSetValue(value, FALSE, << >>)
        \/ \E unit \in SetUnits : ObisSetValue(value, TRUE, unit)

SpecObis == InitObis /\ [][NextObis]_vars

(***************************************************************************)
(* The proxy with its clock: each pty delays its writes by time_per_byte   *)
(* after its last write.  Both peers are attached and the readers are      *)
(* installed; a peer writes a byte (the reader takes it at once), changes  *)
(* its baudrate, and time passes.  Times are in microseconds.              *)
(***************************************************************************)
bits_per_byte == 1 + 7 + 1 + 1
\* SerialPty.time_per_byte, for the baudrate the pty has detected
time_per_byte(baudrate) == (bits_per_byte * 1000000) \div baudrate

\* SerialPty.baudrate: _detect_baudrate() only while nothing is detected.
baudrate_of(w, i) == IF w.baudrate[i] = 0 THEN pbaud[i] ELSE w.baudrate[i]

\* SerialPty._schedule_write_after_baudrate_delay on pty i: call_soon when
\* tnext is not in the future, else call_later.
schedule_write(w, i) ==
    LET tnext == w.writelast[i] + time_per_byte(baudrate_of(w, i))
    IN  [w EXCEPT !.baudrate[i] = baudrate_of(w, i),
                  !.due[i] = IF tnext <= w.now THEN w.now ELSE tnext]

WaitSteps == {time_per_byte(LoginBaud)}

InitTimed ==
    /\ PeerInit /\ ServerInit /\ faults = MaxFaults /\ fed = 0
    /\ GaugeInit /\ LoneInit /\ wfd = ReusedFds
    /\ pphase = "run" /\ readers = Ptys /\ installs = 1
    /\ attached = [i \in Ptys |-> TRUE]
    /\ opens = [i \in Ptys |-> 1]
    /\ pbaud \in [Ptys -> ProxyBauds]
    /\ pin = [i \in Ptys |-> << >>]
    /\ writebuf = [i \in Ptys |-> << >>]
    /\ scheduled = [i \in Ptys |-> 0]
    /\ pout = [i \in Ptys |-> << >>]
    /\ readLog = [i \in Ptys |-> << >>]
    /\ mismatches = 0 /\ pexc = ""
    /\ wtimer = TimerNew /\ exposed = ExposedNew

timedFrame == << pphase, readers, installs, wfd, attached, opens, pin, pexc,
                exposed,
                clientVars, procVars, obsVars, mainVars, serverVars, lineVars,
                fed, gaugeVars, loneVars >>

\* SerialProxy._reader on a byte the peer of pty i wrote: read_byte (which
\* detects the baudrate of pty i), then write_byte on the other pty with the
\* baudrate of pty i.
TimedReader(i) ==
    /\ Len(readLog[i]) < MaxBytes
    /\ LET byte == PeerByte(Len(readLog[i]) + 1)
           j == Peer(i)
           detected == [wtimer EXCEPT !.baudrate[i] = pbaud[i]]
       IN  /\ readLog' = [readLog EXCEPT ![i] = Append(@, byte)]
           /\ writebuf' = [writebuf EXCEPT ![j] = write_byte(@, byte, pbaud[i])]
           /\ IF Len(writebuf'[j]) = 1
              THEN /\ scheduled' = [scheduled EXCEPT ![j] = @ + 1]
                   /\ wtimer' = schedule_write(detected, j)
              ELSE /\ scheduled' = scheduled
                   /\ wtimer' = detected
    /\ UNCHANGED << pbaud, pout, mismatches, timedFrame >>

\* SerialPty._background_write on pty i, once its delay is over.
TimedBackgroundWrite(i) ==
    /\ scheduled[i] > 0 /\ writebuf[i] # << >>
    /\ wtimer.now >= wtimer.due[i]
    /\ LET item == pop0(writebuf[i]).item
           written == [wtimer EXCEPT
                          !.baudrate[i] = pbaud[i],
                          !.writelast[i] = wtimer.now,
                          !.last[i] = [at |-> wtimer.now,
                                       prev |-> wtimer.writelast[i],
                                       baud |-> item.baud,
                                       n |-> wtimer.last[i].n + 1]]
       IN  /\ writebuf' = [writebuf EXCEPT ![i] = pop0(@).rest]
           /\ mismatches' = IF item.baud # pbaud[i]
                            THEN mismatches + 1 ELSE mismatches
           /\ pout' = [pout EXCEPT ![i] = Append(@, item.byte)]
           /\ IF writebuf'[i] # << >>
              THEN /\ scheduled' = scheduled
                   /\ wtimer' = schedule_write(written, i)
              ELSE /\ scheduled' = [scheduled EXCEPT ![i] = @ - 1]
                   /\ wtimer' = written
    /\ UNCHANGED << pbaud, readLog, timedFrame >>

\* The peer of pty i sets its baudrate.
TimedPeerSetsBaud(i, rate) ==
    /\ pbaud[i] # rate
    /\ pbaud' = [pbaud EXCEPT ![i] = rate]
    /\ UNCHANGED << writebuf, scheduled, pout, readLog, mismatches, wtimer,
                    timedFrame >>

\* Time passes: the loop sleeps until a scheduled write is due, or, with
\* nothing scheduled, for as long as a byte takes at the lower baudrate.
Pending == {i \in Ptys : scheduled[i] > 0 /\ wtimer.due[i] > wtimer.now}
Sleeps ==
    IF \E i \in Ptys : scheduled[i] > 0
    THEN {wtimer.due[i] - wtimer.now : i \in Pending}
    ELSE WaitSteps
TimePasses(dt) ==
    /\ wtimer.now + dt <= MaxNow
    /\ \A i \in Ptys : scheduled[i] > 0 => i \in Pending
    /\ \A i \in Pending : dt <= wtimer.due[i] - wtimer.now
    /\ wtimer' = [wtimer EXCEPT !.now = @ + dt]
    /\ UNCHANGED << pbaud, writebuf, scheduled, pout, readLog, mismatches,
                    timedFrame >>

NextTimed ==
    \/ \E i \in Ptys : TimedReader(i)
    \/ \E i \in Ptys : TimedBackgroundWrite(i)
    \/ \E i \in Ptys, rate \in ProxyBauds : TimedPeerSetsBaud(i, rate)
    \/ \E dt \in Sleeps : TimePasses(dt)

SpecTimed == InitTimed /\ [][NextTimed]_vars

(***************************************************************************)
(* The proxy with its exposed symlink: ExposedSerialProxy hides the link   *)
(* at the first read event or in close().  Others may change what the path *)
(* holds.  No file is opened between two calls of close().                 *)
(***************************************************************************)
MaxCloses == 2
PathHolds == {"symlink", "none", "file"}

\* _hide that leaves _exposed_as set.
hide_KeepsPath(e) ==
    IF e.link # "symlink"
    THEN [e EXCEPT !.warns = @ + 1]
    ELSE [e EXCEPT !.link = "none", !.unlinks = @ + 1]

\* ExposedSerialProxy._hide; os.unlink of a symlink is taken to succeed.
hide(e) ==
    IF e.link # "symlink"
    THEN [e EXCEPT !.warns = @ + 1, !.exposed_as = FALSE]
    ELSE [e EXCEPT !.link = "none", !.unlinks = @ + 1, !.exposed_as = FALSE]

\* ExposedSerialProxy.close: _hide while the path is set, then
\* SerialPty.close of both ptys; os.close of a number that is closed
\* already raises OSError, which is suppressed.
exposed_close(e) ==
    [(IF e.exposed_as THEN hide(e) ELSE e) EXCEPT
        !.fd = [i \in Ptys |-> "closed"]]

notExposedVars == << clientVars, procVars, obsVars, mainVars, serverVars,
                     lineVars, fed, gaugeVars, loneVars, wtimer >>
exposedFrame == << pphase, readers, installs, wfd, attached, opens, pbaud,
                  pin, writebuf, scheduled, pout, readLog, mismatches, pexc,
                  notExposedVars >>

\* ExposedSerialProxy._reader
ExposedReader(i) ==
    /\ exposed.closes = 0
    /\ exposed' = [(IF exposed.exposed_as THEN hide(exposed) ELSE exposed)
                      EXCEPT !.reads = @ + 1]
    /\ SerialProxy_reader(i)
    /\ UNCHANGED notExposedVars

\* proxy.close(), called once the loop has ended (and again by a caller
\* that cleans up twice).
ExposedClose ==
    /\ pphase = "done" /\ exposed.closes < MaxCloses
    /\ exposed' = [exposed_close(exposed) EXCEPT !.closes = @ + 1]
    /\ UNCHANGED exposedFrame

\* Someone else removes the path or puts a file or a symlink there.
PathChanges(holds) ==
    /\ exposed.link # holds
    /\ exposed' = [exposed EXCEPT !.link = holds]
    /\ UNCHANGED exposedFrame

InitExposed ==
    /\ PeerInit /\ ServerInit /\ faults = MaxFaults /\ fed = 0
    /\ GaugeInit /\ ProxyInit /\ wfd = ReusedFds /\ LoneInit

NextExposed ==
    \/ \E i \in Ptys : PeerAttach(i, LoginBaud)
    \/ \E i \in Ptys : PeerDetach(i)
    \/ \E i \in Ptys : PeerWrites(i)
    \/ ProxyConnects
    \/ ProxyDisconnects
    \/ ProxyCancelled
    \/ \E i \in Ptys : ExposedReader(i)
    \/ \E i \in Ptys : ProxyBackgroundWrite(i)
    \/ ExposedClose
    \/ \E holds \in PathHolds : PathChanges(holds)

SpecExposed == InitExposed /\ [][NextExposed]_vars

(***************************************************************************)
(* Properties.  The frames are written out byte by byte, as the protocol   *)
(* description gives them.                                                 *)
(***************************************************************************)
BreakBytes == << 1, 66, 48, 3, 113 >>
LoginBytes == << 47, 63, 33, 13, 10 >>
DataModeBytes == << 6, 48, 53, 48, 13, 10 >>
ProgModeBytes == << 6, 48, 53, 49, 13, 10 >>
IdentBytes ==
    << 47, 73, 83, 75, 53, 77, 69, 49, 54, 50, 45, 48, 48, 51, 51, 13, 10 >>
ProgAckBytes == << 1, 80, 48, 2, 40, 41, 3, 96 >>
Addr180 == << 49, 46, 56, 46, 48 >>
Addr280 == << 50, 46, 56, 46, 48 >>
WhBytes == << 87, 104 >>

\* SOH R 1 STX addr ( ) ETX BCC for the address at index idx of the list.
ReadBytes(idx) ==
    IF idx = 0 THEN << 1, 82, 49, 2 >> \o Addr180 \o << 40, 41, 3, 90 >>
    ELSE << 1, 82, 49, 2 >> \o Addr280 \o << 40, 41, 3, 89 >>

IsReadBytes(bytes) == bytes \in {ReadBytes(0), ReadBytes(1)}

\* The last register the processor took is `address`, in Wh, with the value
\* `wh` of the meter's counter.
Delivered(address, wh) ==
    lastReg = [address |-> address, value |-> [int |-> wh, frac |-> 0],
               unit |-> WhBytes]

\* The client task took a step.
ClientStepped == clientVars' # clientVars \/ cstep' # cstep \/ c2s' # c2s

\* Some action of Next has its condition met: the conditions of the client's
\* actions by its position, of the server's by its state, and of the tasks
\* of main().
CanStep ==
    \/ /\ Running
       /\ \/ cpc \in {"loop", "sent"}
          \/ RecvByteReady
          \/ cpc = "recv" /\ waitT >= RecvTimeout(io)
          \/ cpc = "sleep" /\ waitT >= PollSleep
    \/ ServerReadReady
    \/ ServerAlive /\ writerOpen /\ sstate.kind = "write"
    \/ ServerAlive /\ sstate.kind = "reset"
    \/ ServerAlive /\ ~writerOpen /\ sstate.kind \in {"read", "write"}
    \/ Running /\ dms = "check"
    \/ Running /\ Failures # {}
    \/ Running /\ Failures = {} /\ dms = "sleep" /\ ServerIdle /\ ClientWaiting

\* C1: with a line that never spoils a frame, the client task never ends,
\* the system always has a step to take, and both 1.8.0 and 2.8.0 reach the
\* processor in Wh, with the meter's counter value, again and again.
C1_BothRegistersForever ==
    /\ [](faults = 0 =>
            /\ session = "running" /\ clientExc = "" /\ serverExc = ""
            /\ cpc \notin {"failed", "done"} /\ dms # "tripped"
            /\ CanStep)
    /\ \/ <>(faults > 0)
       \/ /\ []<>Delivered(Addr180, cnt.e182)
          /\ []<>Delivered(Addr280, cnt.e282)

C1_Witness ==
    /\ faults = 0 /\ cpc = "sleep" /\ Len(sentLog) = MaxSentLog
    /\ Delivered(Addr280, cnt.e282) /\ cnt.e282 > Initial282 + 5

\* C2: as long as no receive has failed, the frames written are break, login,
\* option select 050, then (the readout taken, mode PROGRAMMING) break, login,
\* option select 051, and after these six only read commands.
C2_FrameOrder ==
    LET expected == << BreakBytes, LoginBytes, DataModeBytes,
                       BreakBytes, LoginBytes, ProgModeBytes >>
    IN  ~recvFailed =>
          /\ \A i \in DOMAIN sentLog :
                IF i <= 6 THEN sentLog[i].bytes = expected[i]
                ELSE IsReadBytes(sentLog[i].bytes)
          /\ Len(sentLog) >= 4 => mode = "PROGRAMMING_MODE"
          /\ Len(sentLog) > 6 => IsReadBytes(lastSent.bytes)
          /\ Len(sentLog) <= 6 /\ sentLog # << >> =>
                lastSent = sentLog[Len(sentLog)]

C2_Witness ==
    /\ ~recvFailed /\ Len(sentLog) > 6 /\ lastSent.bytes = ReadBytes(1)
    /\ roundLog # << >>

\* C3: the client's line is at 9600 from R_DATA_READOUT / R_ACK_PROG_MODE on
\* through the read loop, and the server's is at 9600 whenever its state is,
\* or its write leads to, RECV_CMD_IN_DATA_READOUT or RECV_CMD_IN_PROGRAMMING.
C3_NegotiatedBaud ==
    /\ io \in {"R_DATA_READOUT", "R_ACK_PROG_MODE", "W_REQ_OBIS", "R_READ_OBIS",
               "TRY_PUBLISH", "SLEEP"} => cbaud = 9600
    /\ sstate.name \in {"RECV_CMD_IN_DATA_READOUT", "RECV_CMD_IN_PROGRAMMING"}
          => sbaud = 9600

C3_Witness ==
    /\ io = "R_READ_OBIS" /\ cpc = "recv" /\ cbaud = 9600
    /\ sstate = WriteState(sstate.data, "RECV_CMD_IN_PROGRAMMING")
    /\ sbaud = 9600

\* The client took the next byte off the line, and the buffer with it.
ClientTookByte == cpc = "recv" /\ s2c # << >> /\ s2c' = Tail(s2c)
ByteBuffer == Append(buf, Head(s2c))

\* wait_for gave up on the receive.
ClientTimedOut == cpc = "recv" /\ cpc' = "loop" /\ s2c' = s2c

\* C4: a complete frame with a failing block check, received in
\* R_ACK_PROG_MODE or R_READ_OBIS, is answered with NAK and the client stays
\* in that receive state, its task alive.
C4_NakAndStay ==
    [][ClientTookByte /\ io \in {"R_ACK_PROG_MODE", "R_READ_OBIS"}
       /\ RecvComplete(io, ByteBuffer) /\ check_bcc(ByteBuffer) # "ok"
       => /\ io' = io /\ cpc' = "recv" /\ clientExc' = ""
          /\ c2s' = Append(c2s, NAK)]_vars

C6_NakRereads ==
    [][/\ ClientTookByte /\ io \in {"R_ACK_PROG_MODE", "R_READ_OBIS"}
          /\ buf = << >> /\ Head(s2c) = NAK =>
             /\ io' = "W_REQ_OBIS" /\ cpc' = "loop" /\ cstep' = "nak"
             /\ obis_idx' = obis_idx /\ clientExc' = ""
             /\ UNCHANGED procVars
       /\ cstep = "nak" /\ ClientStepped =>
             /\ cstep' = "write" /\ obis_idx' = obis_idx
             /\ lastSent'.bytes = ReadBytes(obis_idx)]_vars

C6_Witness ==
    /\ cstep = "nak" /\ io = "W_REQ_OBIS" /\ cpc = "loop" /\ obis_idx = 1
    /\ roundLog = << RegisterCall(Addr180) >> /\ lastSent.bytes = ReadBytes(1)

\* C7: the time since the last good 1.8.0 / 2.8.0 never passes 50 s; once it
\* is 50 s the dead man's switch is at (or past) its check, whatever the
\* client is doing, and the session ends with the transport closed; the
\* session ends with DeadMansSwitchTripped unless the client task has failed
\* as well, and only trips at 50 s.
C7_DeadMansSwitch ==
    /\ [](sinceSane <= 50)
    /\ [](Running /\ sinceSane >= 50 => dms \in {"check", "tripped"})
    /\ [](dms = "tripped" => sinceSane >= 50)
    /\ (sinceSane >= 50) ~> (session = "ended" /\ ~writerOpen)
    /\ [](session = "ended" =>
            /\ ~writerOpen
            /\ exitCause \in {"DeadMansSwitchTripped", clientExc}
            /\ clientExc = "" => exitCause = "DeadMansSwitchTripped")

C7_Witness ==
    /\ session = "ended" /\ exitCause = "DeadMansSwitchTripped"
    /\ clientExc = "" /\ ~writerOpen /\ sinceSane = 50 /\ cpc = "recv"

\* The calls of a complete poll round, in order.
FullRound ==
    << RegisterCall(Addr180), RegisterCall(Addr280), PublishCall >>

\* C8: the calls of a poll round are a prefix of 1.8.0, 2.8.0, try_publish;
\* the round is complete when the client sleeps and lacks only try_publish
\* in TRY_PUBLISH; the index stays inside the address list; and the sleep
\* ends in W_REQ_OBIS with the index 0 and a new round.
C8_RoundOrder ==
    /\ [](/\ obis_idx \in 0..1
          /\ obis_idx + 1 \in DOMAIN obis_requests
          /\ Len(roundLog) <= 3
          /\ roundLog = SubSeq(FullRound, 1, Len(roundLog))
          /\ io = "SLEEP" => roundLog = FullRound
          /\ io = "TRY_PUBLISH" => roundLog = SubSeq(FullRound, 1, 2)
          /\ io \in {"W_REQ_OBIS", "R_READ_OBIS"} /\ mode = "PROGRAMMING_MODE"
                => Len(roundLog) = obis_idx)
    /\ [][cpc = "sleep" /\ cpc' # cpc =>
             /\ waitT = 2 /\ io' = "W_REQ_OBIS" /\ obis_idx' = 0
             /\ cpc' = "loop" /\ roundLog' = << >>]_vars

C8_Witness ==
    /\ io = "SLEEP" /\ cpc = "sleep" /\ roundLog = FullRound /\ faults = 1
    /\ cstep = "sleep" /\ lastReg.address = Addr280 /\ recvFailed
    /\ Len(sentLog) = MaxSentLog

\* C9: an identification other than the expected one, received in R_IDENT,
\* sends the client to W_LOGIN, and a reply with a good block check other
\* than SOH P 0 STX ( ) ETX BCC, received in R_ACK_PROG_MODE, sends it to
\* W_REQ_OBIS; the client task stays alive in both cases.
C9_FallBack ==
    [][/\ ClientTookByte /\ io = "R_IDENT" /\ RecvComplete(io, ByteBuffer)
          /\ ByteBuffer # IdentBytes =>
             io' = "W_LOGIN" /\ cpc' = "loop" /\ clientExc' = ""
       /\ ClientTookByte /\ io = "R_ACK_PROG_MODE"
          /\ RecvComplete(io, ByteBuffer) /\ check_bcc(ByteBuffer) = "ok"
          /\ ByteBuffer # ProgAckBytes =>
             io' = "W_REQ_OBIS" /\ cpc' = "loop" /\ clientExc' = ""]_vars

\* C10 as stated: every break frame is written with the client's line at
\* 300 baud.
C10_BreakAt300 ==
    /\ lastSent.bytes = BreakBytes => lastSent.baud = 300
    /\ \A i \in DOMAIN sentLog :
          sentLog[i].bytes = BreakBytes => sentLog[i].baud = 300

\* C10, amended: every break frame is written with the client's line at 9600
\* baud (the line is set to 300 only once the break has been sent), and every
\* login is written at 300.
C10_BreakAt9600 ==
    /\ lastSent.bytes = BreakBytes => lastSent.baud = 9600
    /\ lastSent.bytes = LoginBytes => lastSent.baud = 300
    /\ \A i \in DOMAIN sentLog :
          /\ sentLog[i].bytes = BreakBytes => sentLog[i].baud = 9600
          /\ sentLog[i].bytes = LoginBytes => sentLog[i].baud = 300
    /\ cstep = "write" /\ lastSent.bytes = BreakBytes => cbaud = 9600
    /\ io = "W_LOGIN" => cbaud = 300

C10_Witness ==
    /\ Len(sentLog) >= 5 /\ sentLog[1].bytes = BreakBytes
    /\ sentLog[4].bytes = BreakBytes /\ sentLog[4].baud = 9600
    /\ sentLog[5].bytes = LoginBytes /\ mode = "PROGRAMMING_MODE"

\* The server took the next byte off the line, and its buffer with it.
ServerTookByte == sstate.kind = "read" /\ c2s # << >> /\ c2s' = Tail(c2s)
ServerBuffer == Append(readbuf, Head(c2s))

\* C11: an ACK option select that is well formed but names a Z other than
\* the identification's, or a V, Z or Y that is not supported, makes the
\* server go back to the start (ResetState, then RECV_REQUEST_MESSAGE at 300
\* baud): it switches no baud, writes nothing and keeps serving.
C11_OptionRefused ==
    [][/\ ServerTookByte /\ sstate.name = "RECV_ACK_OPT_SELECT"
          /\ AckOptMatch(ServerBuffer)
          /\ \/ ServerBuffer[2] # Ord("0")
             \/ ServerBuffer[3] # build_identification_message[5]
             \/ ServerBuffer[4] \notin {Ord("0"), Ord("1")}
          => /\ serverExc' = "" /\ sstate' = STATE_0
             /\ sbaud' = sbaud /\ s2c' = s2c
       /\ ServerAlive /\ sstate = STATE_0 /\ sstate' # sstate
          => sstate' = ReadState("RECV_REQUEST_MESSAGE") /\ sbaud' = 300]_vars

\* C12: in RECV_CMD_IN_PROGRAMMING a complete frame with a wrong block check
\* makes the server write NAK and stay there at its baud, and the break
\* frame takes it, with nothing written, back to the start.
C12_NakOrBreak ==
    [][/\ ServerTookByte /\ sstate.name = "RECV_CMD_IN_PROGRAMMING"
          /\ ServerBuffer[1] = SOH /\ ProgMatch(ServerBuffer).from # 0
          /\ check_bcc(SubSeq(ServerBuffer, ProgMatch(ServerBuffer).from,
                              ProgMatch(ServerBuffer).to)) # "ok"
          => /\ serverExc' = "" /\ sbaud' = sbaud
             /\ sstate'.kind = "write" /\ sstate'.data = << NAK >>
             /\ sstate'.name = "RECV_CMD_IN_PROGRAMMING"
       /\ ServerTookByte /\ sstate.name = "RECV_CMD_IN_PROGRAMMING"
          /\ ServerBuffer = build_break
          => /\ serverExc' = "" /\ sstate' = STATE_0 /\ s2c' = s2c]_vars

\* C13: a NAK received in RECV_CMD_IN_DATA_READOUT or RECV_CMD_IN_PROGRAMMING
\* makes the server write again (the frame it wrote last) and come back to
\* the same state; the server does not stop.
C13_NakRepeats ==
    [][ServerTookByte /\ readbuf = << >> /\ Head(c2s) = NAK
       /\ sstate.name \in {"RECV_CMD_IN_DATA_READOUT", "RECV_CMD_IN_PROGRAMMING"}
       => /\ serverExc' = ""
          /\ sstate'.kind = "write" /\ sstate'.name = sstate.name]_vars

\* C14: a server that has read no byte for 90 s is in RECV_REQUEST_MESSAGE
\* at 300 baud.
C14_InactivityTimeout ==
    ServerAlive /\ idle >= 90 =>
        sstate.name = "RECV_REQUEST_MESSAGE" /\ sbaud = 300

\* The buffer ends with "/" "?" ADDR "!" CR LF, ADDR of at most 32 address
\* characters.
WellShapedRequest(b) ==
    \E k \in 0..32 :
        /\ Len(b) >= k + 5
        /\ SubSeq(b, Len(b) - k - 4, Len(b) - k - 3) = Text(<< "/", "?" >>)
        /\ \A j \in (Len(b) - k - 2)..(Len(b) - 3) : IsAddressChar(b[j])
        /\ SubSeq(b, Len(b) - 2, Len(b)) = << Ord("!"), CR, LF >>

\* C15: in RECV_REQUEST_MESSAGE the identification is written only for a
\* buffer that ends with a well shaped request, and any other byte leaves
\* the server in RECV_REQUEST_MESSAGE.
C15_ExactRequest ==
    [][ServerTookByte /\ sstate.name = "RECV_REQUEST_MESSAGE"
       /\ ~WellShapedRequest(ServerBuffer)
       => sstate' = sstate /\ serverExc' = ""]_vars

\* C16: in RECV_REQUEST_MESSAGE, with no request recognised, the buffer
\* holds at most 37 bytes once a byte has been processed.
C16_BufferTrimmed ==
    sstate.name = "RECV_REQUEST_MESSAGE" => Len(readbuf) <= 37

C16_Witness ==
    /\ sstate = ReadState("RECV_REQUEST_MESSAGE") /\ c2s = << >> /\ fed = 1
    /\ Len(readbuf) = 37 /\ readbuf = SubSeq(Garbage, MaxGarbage - 36, MaxGarbage)

\* The bytes queued in a _writebuf, in order.
QueuedBytes(q) == [k \in 1..Len(q) |-> q[k].byte]

C18_ReadersWhenAttached ==
    [][readers = {} /\ readers' # {}
       => /\ \A i \in Ptys : attached[i]
          /\ installs = 0 /\ readers' = Ptys]_vars

\* C19: after every operation on the gauge, t0 <= t1 <= t2 <= tlast and
\* p0 <= p1 <= p2.
C19_RingOrdered ==
    /\ wg.t[1] <= wg.t[2] /\ wg.t[2] <= wg.t[3] /\ wg.t[3] <= wg.tlast
    /\ wg.p[1] <= wg.p[2] /\ wg.p[2] <= wg.p[3]

\* A reset has moved the ring on, after three samples that changed the
\* counter and one that did not.
C19_Witness ==
    /\ gop.op = "reset" /\ gop.acted /\ gop.n = 4
    /\ 0 < wg.t[1] /\ wg.t[1] < wg.t[2] /\ wg.t[2] = wg.t[3]
    /\ wg.p[1] < wg.p[2] /\ wg.t[3] < wg.tlast

C21_SpikeEstimate ==
    /\ gop.op = "sample" /\ gop.n = 3
    /\ wg.t = << 120000, 122000, 122000 >> /\ wg.p = << 1, 10, 10 >>
    => wg.watt = (9 * 3600000) \div 2000


\* C22: has_significant_change() returns true when watt and wprev have
\* opposite signs; with wprev = 0, false for |watt| < 20 and true for
\* |watt| >= 20; otherwise true exactly when watt / wprev is at most 0.6
\* or at least 1.6.
C22_SignificantChange ==
    fcall.fn = "has_significant_change" =>
        LET w == fcall.arg[1]
            wprev == fcall.arg[2]
            returned == fcall.result[1]
        IN  IF (w > 0 /\ wprev < 0) \/ (w < 0 /\ wprev > 0) THEN returned
            ELSE IF wprev = 0 THEN returned <=> Abs(w) >= 20
            ELSE returned <=> \/ 10 * Abs(w) <= 6 * Abs(wprev)
                              \/ 10 * Abs(w) >= 16 * Abs(wprev)

\* The call saw 12 W after 20 W, a factor of exactly 0.6.
C22_Witness ==
    /\ fcall.fn = "has_significant_change"
    /\ fcall.arg = << 12, 20 >> /\ fcall.result = << TRUE >>

\* C23: get_instantaneous_power() returns the positive gauge's watt when
\* the positive gauge's interval since its last change is the smaller one,
\* and minus the negative gauge's watt otherwise, ties included.
C23_PowerOfLatestChange ==
    fcall.fn = "get_instantaneous_power" =>
        fcall.result[1] = IF fcall.arg[1] < fcall.arg[2]
                          THEN fcall.arg[3]
                          ELSE 0 - fcall.arg[4]

\* A tie between two gauges that both have a wattage.
C23_Witness ==
    /\ fcall.fn = "get_instantaneous_power"
    /\ fcall.arg[1] = fcall.arg[2] /\ fcall.arg[3] > 0 /\ fcall.arg[4] > 0
    /\ fcall.result[1] = 0 - fcall.arg[4]

\* C24: two successive calls of the publisher are at least 25 s apart.
C24_PublishAtMostPer25s ==
    Len(pub.times) = 2 => pub.times[2] - pub.times[1] >= 25000

\* Two publishes exactly 25 s apart, the second for a significant change.
C24_Witness ==
    /\ fcall.fn = "try_publish" /\ fcall.result = << TRUE >>
    /\ Len(pub.times) = 2 /\ pub.times[2] - pub.times[1] = 25000
    /\ pub.times[2] = pub.now

\* C25: with try_publish called every 5 s, no try_publish call returns
\* while 120 s or more have passed since the publisher was last called, or
\* since the processor started when it never was.
C25_PublishWithin120s ==
    fcall.fn = "try_publish" /\ pub.gap <= 5000 =>
        pub.now - (IF pub.has_last THEN pub.last_publish ELSE 0) < 120000

\* The three ways a byte string can break the precondition of append_bcc.
NoOpener(f) == \A i \in 1..Len(f) : f[i] \notin Openers
NoFinalCloser(f) == Len(f) = 0 \/ f[Len(f)] \notin Closers
EarlyCloser(f) == \E i \in 1..(Len(f) - 1) : f[i] \in Closers
\* Optional prefix, the first opener at i, no closer between it and the
\* final byte, a closer as the final byte.
WellFormedFrame(f) ==
    \E i \in 1..(Len(f) - 1) :
        /\ f[i] \in Openers
        /\ \A j \in 1..(i - 1) : f[j] \notin Openers
        /\ \A j \in (i + 1)..(Len(f) - 1) : f[j] \notin Closers
        /\ f[Len(f)] \in Closers
FirstOpener(f) == CHOOSE i \in 1..Len(f) :
                      f[i] \in Openers /\ \A j \in 1..(i - 1) : f[j] \notin Openers
RECURSIVE XorFrom(_, _)
XorFrom(f, i) == IF i > Len(f) THEN 0 ELSE Xor(f[i], XorFrom(f, i + 1))

\* C26: for every well-formed frame f (optional prefix, an opener, a payload
\* without closer, a closer as the final byte) append_bcc returns f with one
\* byte appended, that byte is the XOR of the bytes after the first opener
\* through the closer (0x71 for SOH B 0 ETX), and check_bcc accepts the
\* result.
C26_BccRoundTrip ==
    fcall.fn \in {"append_bcc", "check_bcc"} /\ WellFormedFrame(fcall.arg) =>
        /\ fcall.result[1]
        /\ fcall.result[2] =
               Append(fcall.arg, XorFrom(fcall.arg, FirstOpener(fcall.arg) + 1))
        /\ fcall.arg = << 1, 66, 48, 3 >> => fcall.result[2][5] = 113
C26_Witness ==
    /\ fcall.fn = "check_bcc"
    /\ fcall.arg = << 1, 66, 48, 3 >>
    /\ fcall.result = << TRUE, << 1, 66, 48, 3, 113 >> >>

\* C27: append_bcc raises, and returns no frame, for every input without
\* an opener, every input whose final byte is not a closer, and every input
\* with a closer before its final byte.
C27_MalformedRefused ==
    /\ fcall.fn = "append_bcc"
    /\ NoOpener(fcall.arg) \/ NoFinalCloser(fcall.arg) \/ EarlyCloser(fcall.arg)
    => ~fcall.result[1] /\ fcall.result[2] = << >>

\* C28: set_value stores the value as given when no unit is given or the
\* unit is the unit of the variant; it stores value * 1000 cut to its
\* integer part when the unit is k followed by the unit of the variant; for
\* every other unit it raises and the stored value stays what it was.
C28_SetValueUnits ==
    fcall.fn = "set_value" =>
        LET canon == fcall.arg[1]
            value == fcall.arg[2]
            given == fcall.arg[3]
            unit == fcall.arg[4]
            before == fcall.arg[5]
            thousandfold == value.int * 1000 + value.frac \div 1000
        IN  IF ~given \/ (canon # << >> /\ unit = canon)
            THEN fcall.result[1] /\ fcall.result[2] = value
            ELSE IF canon # << >> /\ unit = << 107 >> \o canon
            THEN fcall.result[1]
                 /\ fcall.result[2] = [int |-> thousandfold, frac |-> 0]
            ELSE ~fcall.result[1] /\ fcall.result[2] = before
\* 1.2345 kWh was stored as 1234 Wh; then a set_value in kW raised.
C28_Witness ==
    /\ fcall.fn = "set_value"
    /\ fcall.arg[1] = << 87, 104 >>
    /\ fcall.arg[4] = << 107, 87 >>
    /\ fcall.arg[5] = [int |-> 1234, frac |-> 0]
    /\ fcall.result[1] = FALSE
    /\ fcall.result[2] = [int |-> 1234, frac |-> 0]

\* C29: whenever the client has written a read command (the write of
\* W_REQ_OBIS), it has received the programming acknowledgement since it
\* last signed on, and its mode is not DATA_READOUT.
C29_ReadOnlyAfterAck ==
    cpc = "sent" /\ io = "W_REQ_OBIS" =>
        progAcked /\ mode = "PROGRAMMING_MODE"

\* C30: in RECV_CMD_IN_DATA_READOUT a byte that makes the bytes received
\* there end with the break frame takes the server back to the start,
\* whatever came before the break frame.
C30_BreakAfterAnything ==
    [][ServerTookByte /\ sstate.name = "RECV_CMD_IN_DATA_READOUT"
       /\ EndsWith(ServerBuffer, BreakBytes)
       => sstate' = STATE_0 /\ serverExc' = ""]_vars

\* SOH, a payload of one byte or more without closer, a closer, one byte.
CompleteFrame(b) ==
    /\ Len(b) >= 4 /\ b[1] = SOH /\ b[Len(b) - 1] \in Closers
    /\ \A j \in 2..(Len(b) - 2) : b[j] \notin Closers

\* C31: in RECV_CMD_IN_PROGRAMMING the byte that completes a frame SOH
\* payload CLOSER bcc makes the server take the frame out of its buffer and
\* act on it (a reply or NAK to write, the reset, or an exception of the
\* handler), whatever the value of the bcc byte.
C31_FrameRecognised ==
    [][ServerTookByte /\ sstate.name = "RECV_CMD_IN_PROGRAMMING"
       /\ CompleteFrame(ServerBuffer)
       => readbuf' = << >> /\ (sstate' # sstate \/ serverExc' # "")]_vars

\* C32: in RECV_ACK_OPT_SELECT, RECV_CMD_IN_DATA_READOUT and
\* RECV_CMD_IN_PROGRAMMING the receive buffer stays within a fixed bound
\* whatever bytes arrive; the bound taken is the 37 bytes that
\* RECV_REQUEST_MESSAGE keeps.
C32_BufferBounded ==
    sstate.name \in {"RECV_ACK_OPT_SELECT", "RECV_CMD_IN_DATA_READOUT",
                     "RECV_CMD_IN_PROGRAMMING"}
    => Len(readbuf) <= 37

C34_DelayOfSourceBaud ==
    \A i \in Ptys :
        wtimer.last[i].n > 1 =>
            wtimer.last[i].at - wtimer.last[i].prev
                >= (10 * 1000000) \div wtimer.last[i].baud

ReadEvent == exposed'.reads = exposed.reads + 1
CloseCall == exposed'.closes = exposed.closes + 1
PathUntouched ==
    /\ exposed'.link = exposed.link
    /\ exposed'.unlinks = exposed.unlinks
    /\ exposed'.warns = exposed.warns

SampleCall == gop'.op = "sample" /\ gop'.n = gop.n + 1
LoweredOrLeft ==
    /\ wg'.t = wg.t /\ wg'.p = wg.p
    /\ wg'.watt <= wg.watt
    /\ LET elapsed == gop'.time_ms - wg.t[3]
       IN  IF elapsed > 30000 /\ 3600000 \div elapsed < wg.watt
           THEN wg'.watt = 3600000 \div elapsed
           ELSE wg'.watt = wg.watt

\* C36 as stated: a sample whose counter equals p2 leaves the three ring
\* points unchanged; watt is lowered to 3 600 000 div (tlast - t2) when
\* more than 30 s have passed since t2 and the quotient is below watt, and
\* is unchanged in every other case.
C36_EqualCounterLeavesRing ==
    [][SampleCall /\ gop'.current_wh = wg.p[3] => LoweredOrLeft]_vars

\* C36, amended: the same of every sample but the first one, which sets
\* the three ring points to its own time and counter.
C36_UnchangedCounter ==
    [][SampleCall /\ wg.data_valid /\ gop'.current_wh = wg.p[3]
       => LoweredOrLeft]_vars

\* 6 Wh in 20 s left 1080 W; 70 s without a change have lowered it to 51 W.
C36_Witness ==
    /\ gop.op = "sample" /\ ~gop.acted /\ gop.n = 3
    /\ wg.p = << 0, 6, 6 >> /\ wg.t[3] - wg.t[1] = 20000
    /\ wg.tlast - wg.t[3] = 70000 /\ wg.watt = 51

ResetCall == gop'.op = "reset" /\ gop'.n = gop.n
EnoughValues ==
    LET td == wg.t[3] - wg.t[1]
        pd == wg.p[3] - wg.p[1]
    IN  \/ (td >= 20000 /\ pd >= 6)
        \/ (td >= 50000 /\ pd >= 2)
        \/ td >= 300000

\* C37: reset() never changes watt, tlast or the newest point (t2, p2);
\* when there are enough values it sets point 0 to the old point 1 and
\* point 1 to point 2, and when there are not it changes nothing.
C37_ResetFrame ==
    [][ResetCall
       => /\ wg'.watt = wg.watt /\ wg'.tlast = wg.tlast
          /\ wg'.t[3] = wg.t[3] /\ wg'.p[3] = wg.p[3]
          /\ wg'.data_valid = wg.data_valid
          /\ IF EnoughValues
             THEN /\ wg'.t[1] = wg.t[2] /\ wg'.p[1] = wg.p[2]
                  /\ wg'.t[2] = wg.t[3] /\ wg'.p[2] = wg.p[3]
             ELSE wg' = wg]_vars

\* A reset has moved a ring of three different points on, with watt left
\* at what the last sample made it.
C37_Witness ==
    /\ gop.op = "reset" /\ gop.acted
    /\ wg.t[1] > 0 /\ wg.t[1] < wg.t[2] /\ wg.t[2] = wg.t[3]
    /\ wg.p[1] < wg.p[2] /\ wg.p[2] = wg.p[3]
    /\ wg.watt > 0 /\ wg.tlast > wg.t[3]

\* C38: with time and counter that never go down, and resets in between,
\* no operation of the gauge divides by zero and watt is never negative.
C38_NoZeroDivision ==
    /\ wg.watt >= 0
    /\ \A dt \in TimeSteps, dwh \in WhSteps :
           0 \notin divisors(wg, gop.time_ms + dt, gop.current_wh + dwh)

\* After a reset that moved the ring on, a sample has divided by the 20 s
\* between the two points the reset left.
C38_Witness ==
    /\ gop.op = "sample" /\ gop.n = 3 /\ gop.acted
    /\ wg.t[1] >= 20000 /\ wg.t[3] - wg.t[1] = 20000 /\ wg.t[2] = wg.t[3]
    /\ wg.p = << 6, 12, 12 >>
    /\ wg.watt = 1080

EnergyResetCall == fcall' = NoCall /\ pub'.calls = pub.calls

\* C39: reset() leaves get_instantaneous_power() unchanged and sets wprev
\* to it; has_significant_change() is false right after it and for as long
\* as the instantaneous power is the one the reset saw.
C39_ResetKeepsPower ==
    [][/\ (EnergyResetCall
            => /\ get_instantaneous_power(eg') = get_instantaneous_power(eg)
               /\ eg'.wprev = get_instantaneous_power(eg)
               /\ ~has_significant_change(eg'))
       /\ (get_instantaneous_power(eg') = eg'.wprev
            => ~has_significant_change(eg'))]_vars

\* After a reset at a power other than 0, has_significant_change() has
\* returned false for that same power.
C39_Witness ==
    /\ fcall.fn = "has_significant_change" /\ fcall.result = << FALSE >>
    /\ fcall.arg[1] = fcall.arg[2] /\ fcall.arg[2] # 0
    /\ eg.wprev = fcall.arg[2]
    /\ eg.positive.t[1] > 0

\* C40: for a frame that passes the BCC check, prefix bytes before the
\* opener or not, unpack_datamessage returns the bytes between the opener
\* and the closer; for a frame that does not pass it, it raises and returns
\* no text.
C40_PayloadBetweenOpenerAndCloser ==
    fcall.fn = "unpack_datamessage" =>
        LET f == fcall.arg
        IN  IF check_bcc(f) = "ok"
            THEN (\E i \in 1..Len(f) : f[i] \in Openers)
                 => /\ fcall.result[1] = ""
                    /\ fcall.result[2]
                           = SubSeq(f, FirstOpener(f) + 1, Len(f) - 2)
            ELSE fcall.result[1] # "" /\ fcall.result[2] = << >>

====
